---- MODULE Spec2Model ----
(***************************************************************************)
(* Model of the GradCafe acquisition pipeline of module_5:                 *)
(*   - the applicants table (load_data.py) and insert_row (app.py),        *)
(*   - the /pull-data crawl-until-caught-up handler (app.py),              *)
(*   - the scrape_data crawl of the command-line scraper (scrape.py),      *)
(*   - the robots.txt checker (robots_checker.py),                         *)
(*   - the cleanup passes (cleanup_data.py).                               *)
(* One process runs per behaviour: either the Flask application serving    *)
(* /pull-data requests one after another, or the scrape.py command line    *)
(* running scrape_data.  The site (page contents, pagination, errors) and  *)
(* the robots policy are the environment and answer nondeterministically.  *)
(***************************************************************************)
EXTENDS Integers, Sequences, FiniteSets, TLC

(***************************************************************************)
(* Bounds of the model.                                                    *)
(***************************************************************************)
\* pagination links of the site go up to this page number
MaxSitePages == 3
\* table rows (records) on one page fetched by pull_data
MaxRows == 2
\* table rows (records) on one page fetched by scrape_data
MaxScrapeRows == 1

(***************************************************************************)
(* Program constants.                                                      *)
(***************************************************************************)
\* app.py:149  request.json.get("max_pages", 100) and app.py:154
DefaultMaxPages == 100
\* app.py:152  min(int(raw_max), 500)
MaxPagesLimit == 500
\* app.py:157  delay = 0.5, in tenths of a second
PullDelay == 5
\* cleanup_data.py:74  gre_aw_max = 6
GreAwMax == 6

(***************************************************************************)
(* Values.  Delays are in tenths of a second.  NoDelay stands for the      *)
(* None that RobotFileParser.crawl_delay returns when robots.txt has no    *)
(* Crawl-delay line.  A score is in hundredths (REAL gpa, gre, gre_v,      *)
(* gre_aw); Null stands for SQL NULL / Python None in a score: like NULL   *)
(* it is above no number.                                                  *)
(***************************************************************************)
NoDelay == -1
Null == -999

\* result urls; "" is what insert_row stores for a record without a result link
Urls == {"", "r1"}
\* the text parse_detail_row leaves in the "GRE AW" field of a record
AwTexts == {"", "GRE AW 7.00"}
\* the "program" text of a record ("<program>, <school>")
Programs == {"Physics, MIT"}

\* a raw record as parse_survey returns it (the fields insert_row reads)
Records == [url : Urls, program : Programs, aw : AwTexts]

RECURSIVE SeqsUpTo(_, _)
\* all sequences over S of length at most n
SeqsUpTo(S, n) ==
    IF n = 0 THEN {<<>>}
    ELSE LET shorter == SeqsUpTo(S, n - 1)
         IN  shorter \cup {Append(s, x) : s \in {t \in shorter : Len(t) = n - 1}, x \in S}

\* what one page parses to, for the two crawls
PullPages == SeqsUpTo(Records, MaxRows)
ScrapePages == SeqsUpTo(Records, MaxScrapeRows)

Min(a, b) == IF a < b THEN a ELSE b
Max(a, b) == IF a > b THEN a ELSE b

(***************************************************************************)
(* Python strings.  A string is a TLA+ string; its characters are its      *)
(* one-character substrings.  The operators below are str and re as the    *)
(* program uses them, on the ASCII letters, digits, space and punctuation. *)
(***************************************************************************)
LowerLetters == "abcdefghijklmnopqrstuvwxyz"
UpperLetters == "ABCDEFGHIJKLMNOPQRSTUVWXYZ"
DigitChars == "0123456789"

Char(s, i) == SubSeq(s, i, i)
\* the position of character c in alphabet, 0 if it is not in it
IndexIn(c, alphabet) ==
    IF \E i \in 1..Len(alphabet) : Char(alphabet, i) = c
    THEN CHOOSE i \in 1..Len(alphabet) : Char(alphabet, i) = c
    ELSE 0
IsUpper(c) == IndexIn(c, UpperLetters) # 0
IsLower(c) == IndexIn(c, LowerLetters) # 0
IsAlpha(c) == IsUpper(c) \/ IsLower(c)
IsDigit(c) == IndexIn(c, DigitChars) # 0
\* \s and \w of re
IsSpace(c) == c = " "
IsWordChar(c) == IsAlpha(c) \/ IsDigit(c) \/ c = "_"
LowerChar(c) == IF IsUpper(c) THEN Char(LowerLetters, IndexIn(c, UpperLetters)) ELSE c
UpperChar(c) == IF IsLower(c) THEN Char(UpperLetters, IndexIn(c, LowerLetters)) ELSE c

RECURSIVE Lower(_)
\* str.lower
Lower(s) == IF s = "" THEN "" ELSE LowerChar(Head(s)) \o Lower(Tail(s))

RECURSIVE TitleFrom(_, _)
\* str.title, prev_cased telling whether the previous character was a letter
TitleFrom(s, prev_cased) ==
    IF s = "" THEN ""
    ELSE IF IsAlpha(Head(s))
         THEN (IF prev_cased THEN LowerChar(Head(s)) ELSE UpperChar(Head(s)))
                  \o TitleFrom(Tail(s), TRUE)
         ELSE Head(s) \o TitleFrom(Tail(s), FALSE)
Title(s) == TitleFrom(s, FALSE)

RECURSIVE LStrip(_, _)
\* str.lstrip(chars), chars a set of characters
LStrip(s, chars) ==
    IF s # "" /\ Head(s) \in chars THEN LStrip(Tail(s), chars) ELSE s
RECURSIVE RStrip(_, _)
RStrip(s, chars) ==
    IF s # "" /\ Char(s, Len(s)) \in chars
    THEN RStrip(SubSeq(s, 1, Len(s) - 1), chars) ELSE s
\* str.strip() and str.strip(chars)
StripChars(s, chars) == RStrip(LStrip(s, chars), chars)
Strip(s) == StripChars(s, {" "})

StartsWith(s, prefix) ==
    Len(s) >= Len(prefix) /\ SubSeq(s, 1, Len(prefix)) = prefix
\* s[i:] (1-based) and whether sub occurs in s at position i
From(s, i) == SubSeq(s, i, Len(s))
OccursAt(s, sub, i) ==
    i >= 1 /\ i + Len(sub) - 1 <= Len(s) /\ SubSeq(s, i, i + Len(sub) - 1) = sub
\* "sub in s"
Contains(s, sub) == \E i \in 1..(Len(s) + 1) : OccursAt(s, sub, i)
\* s.find(sub), 1-based, 0 when absent
Find(s, sub) ==
    IF Contains(s, sub)
    THEN CHOOSE i \in 1..(Len(s) + 1) :
            OccursAt(s, sub, i) /\ \A j \in 1..(i - 1) : ~OccursAt(s, sub, j)
    ELSE 0

RECURSIVE Split(_, _)
\* str.split(sep)
Split(s, sep) ==
    IF Find(s, sep) = 0 THEN << s >>
    ELSE << SubSeq(s, 1, Find(s, sep) - 1) >> \o Split(From(s, Find(s, sep) + Len(sep)), sep)

RECURSIVE Join(_, _)
\* sep.join(parts)
Join(parts, sep) ==
    IF parts = <<>> THEN ""
    ELSE IF Len(parts) = 1 THEN parts[1]
    ELSE parts[1] \o sep \o Join(Tail(parts), sep)

\* every character of s satisfies the test, and there is at least one
AllDigits(s) == s # "" /\ \A i \in 1..Len(s) : IsDigit(Char(s, i))
AllSpaces(s) == s # "" /\ \A i \in 1..Len(s) : IsSpace(Char(s, i))
AllLetters(s) == s # "" /\ \A i \in 1..Len(s) : IsAlpha(Char(s, i))
\* s is a, then b, for some cut of s
Cut(s, A(_), B(_)) ==
    \E i \in 0..Len(s) : A(SubSeq(s, 1, i)) /\ B(From(s, i + 1))

(***************************************************************************)
(* parse_survey (scrape.py).  A page is known by what BeautifulSoup finds  *)
(* in it: whether it has a table, whether its first table has a tbody, and *)
(* the tr rows of that tbody, each the sequence of its td cells.  A cell   *)
(* is its text nodes in document order and the hrefs of its anchors.  A    *)
(* record is a dict: a function from the keys it has.                      *)
(***************************************************************************)
Cell(strings, hrefs) == [strings |-> strings, hrefs |-> hrefs]
EmptyDict == [k \in {} |-> ""]
\* None, as find() returns it and as current_result starts
NoneValue == [none |-> TRUE]

RECURSIVE StrippedStrings(_)
\* Tag.stripped_strings: the text nodes stripped, the empty ones dropped
StrippedStrings(strings) ==
    IF strings = <<>> THEN <<>>
    ELSE (IF Strip(Head(strings)) = "" THEN <<>> ELSE << Strip(Head(strings)) >>)
             \o StrippedStrings(Tail(strings))

\* Tag.get_text(separator, strip=True)
get_text(cell, separator) == Join(StrippedStrings(cell.strings), separator)

\* cell.find("a", href=re.compile(r"/result/")): the first such href, None if none
FindResultLink(cell) ==
    IF \E i \in DOMAIN cell.hrefs : Contains(cell.hrefs[i], "/result/")
    THEN cell.hrefs[CHOOSE i \in DOMAIN cell.hrefs :
                       /\ Contains(cell.hrefs[i], "/result/")
                       /\ \A j \in 1..(i - 1) : ~Contains(cell.hrefs[j], "/result/")]
    ELSE "None"

\* the "Degree" parse_main_row derives from the second part of the program cell
DegreeOf(degree) ==
    IF Contains(Lower(degree), "phd") THEN "PhD"
    ELSE IF Contains(Lower(degree), "master")
            \/ degree \in {"MS", "MA", "MFA", "MBA", "MEng"} THEN "Masters"
    ELSE degree

\* parse_main_row: the record a five-cell row opens
parse_main_row(cells) ==
    LET school == get_text(cells[1], "")
        program_parts == Split(get_text(cells[2], " | "), " | ")
        program_name == program_parts[1]
        href == FindResultLink(cells[5])
    IN  (IF Len(program_parts) > 1
         THEN "Degree" :> DegreeOf(Strip(program_parts[2])) ELSE EmptyDict)
        @@ (IF href = "None" THEN EmptyDict
            ELSE "url" :> (IF StartsWith(href, "/")
                           THEN "https://www.thegradcafe.com" \o href ELSE href))
        @@ "program" :> (program_name \o ", " \o school)
        @@ "school" :> school
        @@ "program_name" :> program_name
        @@ "date_added" :> ("Added on " \o get_text(cells[3], ""))
        @@ "status" :> get_text(cells[4], "")
        @@ "GPA" :> "" @@ "GRE V" :> "" @@ "GRE AW" :> "" @@ "GRE Q" :> ""
        @@ "GRE" :> ""
        @@ "comments" :> <<>>

\* re.match(r'^(fall|spring|summer|winter)\s+\d{4}$', part_lower)
IsTerm(part_lower) ==
    \E season \in {"fall", "spring", "summer", "winter"} :
        /\ StartsWith(part_lower, season)
        /\ LET rest == From(part_lower, Len(season) + 1)
           IN  /\ Len(rest) >= 5
               /\ AllSpaces(SubSeq(rest, 1, Len(rest) - 4))
               /\ AllDigits(From(rest, Len(rest) - 3))

\* \d+(\.\d+)?$
IsNumber(s) ==
    \/ AllDigits(s)
    \/ \E i \in 1..Len(s) :
          Char(s, i) = "." /\ AllDigits(SubSeq(s, 1, i - 1)) /\ AllDigits(From(s, i + 1))

\* re.match(r'^gpa\s+\d+(\.\d+)?$', part_lower)
IsGpa(part_lower) ==
    /\ StartsWith(part_lower, "gpa")
    /\ Cut(From(part_lower, 4), AllSpaces, IsNumber)

\* any(x in part_lower for x in [...]) and len(part) < 50
LooksLikeStatus(part) ==
    /\ \E x \in {"accepted", "rejected", "interview", "wait"} : Contains(Lower(part), x)
    /\ Len(part) < 50

\* the chain with the generic GRE test ahead of the three specific ones
ClassifyGenericFirst(part) ==
    LET part_lower == Lower(part)
    IN  IF IsTerm(part_lower) THEN "term"
        ELSE IF part_lower = "international" THEN "International"
        ELSE IF part_lower = "american" THEN "American"
        ELSE IF IsGpa(part_lower) THEN "GPA"
        ELSE IF StartsWith(part_lower, "gre") THEN "GRE"
        ELSE IF StartsWith(part_lower, "gre v") THEN "GRE V"
        ELSE IF StartsWith(part_lower, "gre aw") THEN "GRE AW"
        ELSE IF StartsWith(part_lower, "gre q") THEN "GRE Q"
        ELSE IF LooksLikeStatus(part) THEN "status"
        ELSE "comment"

\* the if/elif chain of parse_detail_row: the branch one part takes
Classify(part) ==
    LET part_lower == Lower(part)
    IN  IF IsTerm(part_lower) THEN "term"
        ELSE IF part_lower = "international" THEN "International"
        ELSE IF part_lower = "american" THEN "American"
        ELSE IF IsGpa(part_lower) THEN "GPA"
        ELSE IF StartsWith(part_lower, "gre v") THEN "GRE V"
        ELSE IF StartsWith(part_lower, "gre aw") THEN "GRE AW"
        ELSE IF StartsWith(part_lower, "gre q") THEN "GRE Q"
        ELSE IF StartsWith(part_lower, "gre") THEN "GRE"
        ELSE IF LooksLikeStatus(part) THEN "status"
        ELSE "comment"

\* result[key] = value
SetKey(result, key, value) == (key :> value) @@ result

\* one turn of "for part in parts" on st = [result, found, comment_parts]
DetailPart(st, part) ==
    LET branch == Classify(part)
        set(key, value) == [st EXCEPT !.result = SetKey(st.result, key, value),
                                      !.found = TRUE]
    IN  CASE branch \in {"term", "GPA", "GRE V", "GRE AW", "GRE Q", "GRE"} ->
                set(branch, part)
          [] branch \in {"International", "American"} ->
                set("US/International", branch)
          [] branch = "status" ->
                IF "status" \notin DOMAIN st.result \/ st.result["status"] = ""
                THEN set("status", part)
                ELSE st
          [] OTHER ->
                [st EXCEPT !.comment_parts = Append(st.comment_parts, part)]

RECURSIVE DetailParts(_, _)
DetailParts(st, parts) ==
    IF parts = <<>> THEN st ELSE DetailParts(DetailPart(st, Head(parts)), Tail(parts))

\* result["comments"].append(text)
AppendComment(result, text) ==
    SetKey(result, "comments", Append(result["comments"], text))

\* parse_detail_row: the record after a one-cell row was routed to it
parse_detail_row(cell, result) ==
    LET text == get_text(cell, " | ")
        split == Split(text, " | ")
        parts == [i \in DOMAIN split |-> Strip(split[i])]
        st == DetailParts([result |-> result, found |-> FALSE, comment_parts |-> <<>>],
                          parts)
        joined == IF st.comment_parts # <<>>
                  THEN AppendComment(st.result, Join(st.comment_parts, " "))
                  ELSE st.result
    IN  IF text = "" THEN result
        ELSE IF ~st.found
                /\ ~\E i \in DOMAIN joined["comments"] : joined["comments"][i] = text
             THEN AppendComment(joined, text)
             ELSE joined

\* soup.find("table"): the first table, None when the page has none
FindTable(d) ==
    IF d.table THEN [tag |-> "table", tbody |-> d.tbody, rows |-> d.rows] ELSE NoneValue

\* table.find("tbody"): the first tbody of the table, None when it has none
FindTbody(table) ==
    IF table.tbody THEN [tag |-> "tbody", rows |-> table.rows] ELSE NoneValue

\* the tests for a missing tag dropped
NeverMissing(tag) == FALSE

\* "if not table", "if not tbody": a Tag is always true, None is false
Missing(tag) == tag = NoneValue

\* a row with five cells or more opens a record
IsMainRowOrWider(cells) == Len(cells) >= 5

\* "len(cells) == 5" and "len(cells) == 1"
IsMainRow(cells) == Len(cells) = 5
IsDetailRow(cells) == Len(cells) = 1

\* "if current_result": None and the empty dict are false
Truthy(current_result) ==
    current_result # NoneValue /\ DOMAIN current_result # {}

RECURSIVE ParseRows(_, _, _)
\* the loop of parse_survey over the rows left, and the flush at the end
ParseRows(rows, current_result, results) ==
    LET flushed == IF Truthy(current_result)
                   THEN Append(results, current_result) ELSE results
    IN  IF rows = <<>> THEN flushed
        ELSE IF IsMainRow(Head(rows))
             THEN ParseRows(Tail(rows), parse_main_row(Head(rows)), flushed)
        ELSE IF IsDetailRow(Head(rows)) /\ Truthy(current_result)
             THEN ParseRows(Tail(rows),
                            parse_detail_row(Head(rows)[1], current_result), results)
        ELSE ParseRows(Tail(rows), current_result, results)

\* parse_survey(html): [raised, results]; a method called on None raises
\* AttributeError
parse_survey(d) ==
    LET table == FindTable(d)
        tbody == FindTbody(table)
    IN  IF Missing(table) THEN [raised |-> FALSE, results |-> <<>>]
        ELSE IF table = NoneValue THEN [raised |-> TRUE, results |-> <<>>]
        ELSE IF Missing(tbody) THEN [raised |-> FALSE, results |-> <<>>]
        ELSE IF tbody = NoneValue THEN [raised |-> TRUE, results |-> <<>>]
        ELSE [raised |-> FALSE, results |-> ParseRows(tbody.rows, NoneValue, <<>>)]

(***************************************************************************)
(* llm_standardizer.py.  The canonical lists are read from files when the  *)
(* module is loaded, so they are parameters here; the completion of the    *)
(* model is known by how json.loads takes its content.                     *)
(***************************************************************************)
RECURSIVE CollapseSpaces(_)
\* re.sub(r"\s+", " ", s)
CollapseSpaces(s) ==
    IF s = "" THEN ""
    ELSE IF IsSpace(Head(s)) THEN " " \o CollapseSpaces(LStrip(s, {" "}))
    ELSE Head(s) \o CollapseSpaces(Tail(s))

RECURSIVE ReSplit(_)
\* re.split(r",| at | @ ", s): cut at the leftmost separator, again on the rest
ReSplit(s) ==
    LET hits == {h \in (1..Len(s)) \X {",", " at ", " @ "} : OccursAt(s, h[2], h[1])}
        first == CHOOSE h \in hits : \A g \in hits : h[1] <= g[1]
    IN  IF hits = {} THEN << s >>
        ELSE << SubSeq(s, 1, first[1] - 1) >>
                 \o ReSplit(From(s, first[1] + Len(first[2])))

\* \b before position i of s and before position i of s seen from a word character
WordStartsAt(s, i) == i = 1 \/ ~IsWordChar(Char(s, i - 1))
WordEndsBefore(s, i) == i > Len(s) \/ ~IsWordChar(Char(s, i))

RECURSIVE OfToLower(_, _)
\* re.sub(r"\bOf\b", "of", s), from position i on
OfToLower(s, i) ==
    IF i > Len(s) THEN ""
    ELSE IF OccursAt(s, "Of", i) /\ WordStartsAt(s, i) /\ WordEndsBefore(s, i + 2)
         THEN "of" \o OfToLower(s, i + 2)
    ELSE Char(s, i) \o OfToLower(s, i + 1)

NonEmpty(p) == p # ""
StripAll(parts) == [i \in DOMAIN parts |-> Strip(parts[i])]

\* (?i)mcg(ill)?(\.)?  and  (?i)(ubc|u\.?b\.?c\.?|university of british columbia)
McGillForms == {"mcg", "mcgill", "mcg.", "mcgill."}
UbcForms == {"ubc", "u.bc", "ub.c", "u.b.c", "ubc.", "u.bc.", "ub.c.", "u.b.c."}

\* _split_fallback(text): << prog, uni >>
split_fallback(text) ==
    LET s == StripChars(Strip(CollapseSpaces(text)), {","})
        parts == SelectSeq(StripAll(ReSplit(s)), NonEmpty)
        prog == IF parts # <<>> THEN parts[1] ELSE ""
        uni0 == IF Len(parts) > 1 THEN parts[2] ELSE ""
        uni1 == IF Lower(uni0) \in McGillForms THEN "McGill University" ELSE uni0
        uni2 == IF Lower(uni1) \in UbcForms \cup {"university of british columbia"}
                THEN "University of British Columbia" ELSE uni1
    IN  << Title(prog), IF uni2 # "" THEN OfToLower(Title(uni2), 1) ELSE "Unknown" >>

(* difflib.SequenceMatcher(a, b), no junk (autojunk needs 200 characters). *)
RECURSIVE RunLen(_, _, _, _, _, _)
\* the length of the common run of a from i and b from j, inside [i, ahi) x [j, bhi)
RunLen(a, i, ahi, b, j, bhi) ==
    IF i < ahi /\ j < bhi /\ Char(a, i) = Char(b, j)
    THEN 1 + RunLen(a, i + 1, ahi, b, j + 1, bhi) ELSE 0

\* find_longest_match(alo, ahi, blo, bhi): << i, j, k >>, the longest block, of those
\* the earliest in a, of those the earliest in b
find_longest_match(a, alo, ahi, b, blo, bhi) ==
    LET starts == {ij \in (alo..(ahi - 1)) \X (blo..(bhi - 1)) :
                      Char(a, ij[1]) = Char(b, ij[2])}
        blocks == {<< ij[1], ij[2], RunLen(a, ij[1], ahi, b, ij[2], bhi) >> :
                      ij \in starts}
    IN  IF blocks = {} THEN << alo, blo, 0 >>
        ELSE CHOOSE m \in blocks : \A n \in blocks :
                \/ m[3] > n[3]
                \/ m[3] = n[3] /\ m[1] < n[1]
                \/ m[3] = n[3] /\ m[1] = n[1] /\ m[2] <= n[2]

RECURSIVE Matched(_, _, _, _, _, _)
\* get_matching_blocks: the characters matched in [alo, ahi) x [blo, bhi)
Matched(a, alo, ahi, b, blo, bhi) ==
    LET m == find_longest_match(a, alo, ahi, b, blo, bhi)
    IN  IF m[3] = 0 THEN 0
        ELSE m[3] + Matched(a, alo, m[1], b, blo, m[2])
                  + Matched(a, m[1] + m[3], ahi, b, m[2] + m[3], bhi)

Count(s, c) == Cardinality({i \in 1..Len(s) : Char(s, i) = c})
RECURSIVE SumOver(_, _, _)
SumOver(S, a, b) ==
    IF S = {} THEN 0
    ELSE LET c == CHOOSE x \in S : TRUE
         IN  Min(Count(a, c), Count(b, c)) + SumOver(S \ {c}, a, b)
\* the characters a and b share, as multisets (quick_ratio)
Shared(a, b) == SumOver({Char(b, i) : i \in 1..Len(b)}, a, b)

\* 2.0 * matches / length >= cutoff, the cutoff in hundredths
AtLeast(matches, length, cutoff) ==
    IF length = 0 THEN TRUE ELSE 200 * matches >= cutoff * length

\* get_close_matches keeps x when real_quick_ratio, quick_ratio and ratio reach
\* the cutoff
Close(x, word, cutoff) ==
    /\ AtLeast(Min(Len(x), Len(word)), Len(x) + Len(word), cutoff)
    /\ AtLeast(Shared(x, word), Len(x) + Len(word), cutoff)
    /\ AtLeast(Matched(x, 1, Len(x) + 1, word, 1, Len(word) + 1),
               Len(x) + Len(word), cutoff)

RECURSIVE StrLess(_, _)
\* x < y on strings of letters, digits, space and punctuation the corpus uses
Alphabet == " &'(),-." \o DigitChars \o UpperLetters \o LowerLetters
StrLess(x, y) ==
    IF y = "" THEN FALSE
    ELSE IF x = "" THEN TRUE
    ELSE IF Head(x) = Head(y) THEN StrLess(Tail(x), Tail(y))
    ELSE IndexIn(Head(x), Alphabet) < IndexIn(Head(y), Alphabet)

\* _best_match(name, candidates, cutoff): heapq.nlargest(1, (ratio, x)), None if no
\* candidate is close
best_match(name, candidates, cutoff) ==
    LET close == {i \in DOMAIN candidates : Close(candidates[i], name, cutoff)}
        score(i) == Matched(candidates[i], 1, Len(candidates[i]) + 1,
                            name, 1, Len(name) + 1)
        len(i) == Len(candidates[i]) + Len(name)
        best == CHOOSE i \in close : \A j \in close :
                    \/ score(i) * len(j) > score(j) * len(i)
                    \/ /\ score(i) * len(j) = score(j) * len(i)
                       /\ ~StrLess(candidates[i], candidates[j])
    IN  IF name = "" \/ candidates = <<>> \/ close = {} THEN "None"
        ELSE candidates[best]

InSeq(x, seq) == \E i \in DOMAIN seq : seq[i] = x

COMMON_PROG_FIXES(p) ==
    CASE p = "Mathematic" -> "Mathematics"
      [] p = "Info Studies" -> "Information Studies"
      [] p = "Comp Sci" -> "Computer Science"
      [] p = "CS" -> "Computer Science"
      [] OTHER -> p

\* _post_normalize_program(prog)
post_normalize_program(prog, canon_progs) ==
    LET p == Title(COMMON_PROG_FIXES(Strip(prog)))
        match == best_match(p, canon_progs, 84)
    IN  IF InSeq(p, canon_progs) THEN p
        ELSE IF match # "None" THEN match ELSE p

\* the patterns of ABBREV_UNI without (?i)
AbbrevCaseSensitive(u) ==
    CASE u \in {"mcg", "mcg.", "mcgill"} -> "McGill University"
      [] u \in UbcForms -> "University of British Columbia"
      [] u = "uoft" -> "University of Toronto"
      [] u = "cuny" -> "The City University of New York"
      [] u = "duke" -> "Duke University"
      [] u = "mit" -> "Massachusetts Institute of Technology"
      [] u = "cmu" -> "Carnegie Mellon University"
      [] u = "jhu" -> "Johns Hopkins University"
      [] OTHER -> u

\* the first pattern of ABBREV_UNI that u matches in full, else u
ABBREV_UNI(u) ==
    LET l == Lower(u)
    IN  CASE l \in {"mcg", "mcg.", "mcgill"} -> "McGill University"
          [] l \in UbcForms -> "University of British Columbia"
          [] l = "uoft" -> "University of Toronto"
          [] l = "cuny" -> "The City University of New York"
          [] l = "duke" -> "Duke University"
          [] l = "mit" -> "Massachusetts Institute of Technology"
          [] l = "cmu" -> "Carnegie Mellon University"
          [] l = "jhu" -> "Johns Hopkins University"
          [] OTHER -> u

COMMON_UNI_FIXES(u) ==
    CASE u = "McGiill University" -> "McGill University"
      [] u = "Mcgill University" -> "McGill University"
      [] u = "University Of British Columbia" -> "University of British Columbia"
      [] u = "Massachusetts Institute of Technology (MIT)" ->
            "Massachusetts Institute of Technology"
      [] u = "University of Alabama At Birmingham" -> "University of Alabama at Birmingham"
      [] OTHER -> u

\* re.sub(r"\s*\([A-Za-z]+\)\s*$", "", u): the trailing parenthetical cut off
StripParenthetical(u) ==
    LET t == RStrip(u, {" "})
        opens == {i \in 1..Len(t) : /\ Char(t, i) = "("
                                    /\ Char(t, Len(t)) = ")"
                                    /\ AllLetters(SubSeq(t, i + 1, Len(t) - 1))}
    IN  IF opens = {} THEN u
        ELSE RStrip(SubSeq(t, 1, (CHOOSE i \in opens : TRUE) - 1), {" "})

\* UC_CAMPUS_PATTERNS: per campus the alternatives, each the literal pieces that
\* \s* joins, and the canonical name
Irvines == {<< "irvin" \o tail >> : tail \in {"", "e", "n", "ee", "en", "ne", "ene"}}
UC_CAMPUS_PATTERNS ==
    << [alts |-> {<< "ucla" >>, << "los", "angeles" >>},
        canonical |-> "University of California, Los Angeles"],
       [alts |-> {<< "ucb" >>, << "uc", "berkeley" >>, << "berkeley" >>},
        canonical |-> "University of California, Berkeley"],
       [alts |-> {<< "ucsd" >>, << "san", "diego" >>},
        canonical |-> "University of California, San Diego"],
       [alts |-> {<< "ucsb" >>, << "santa", "barbara" >>},
        canonical |-> "University of California, Santa Barbara"],
       [alts |-> {<< "uci" >>} \cup Irvines,
        canonical |-> "University of California, Irvine"],
       [alts |-> {<< "ucd" >>, << "uc", "davis" >>, << "davis" >>},
        canonical |-> "University of California, Davis"],
       [alts |-> {<< "ucsc" >>, << "santa", "cruz" >>},
        canonical |-> "University of California, Santa Cruz"],
       [alts |-> {<< "ucr" >>, << "riverside" >>},
        canonical |-> "University of California, Riverside"],
       [alts |-> {<< "ucm" >>, << "merced" >>},
        canonical |-> "University of California, Merced"],
       [alts |-> {<< "ucsf" >>, << "san", "francisco" >>},
        canonical |-> "University of California, San Francisco"] >>

RECURSIVE PiecesEnd(_, _, _)
\* where the pieces, \s* between them, end when they start at position i of s
\* (0 when they do not occur there)
PiecesEnd(s, i, pieces) ==
    IF ~OccursAt(s, Head(pieces), i) THEN 0
    ELSE IF Len(pieces) = 1 THEN i + Len(Head(pieces))
    ELSE LET after == i + Len(Head(pieces))
             rest == From(s, after)
         IN  PiecesEnd(s, after + (Len(rest) - Len(LStrip(rest, {" "}))), Tail(pieces))

\* re.fullmatch(r".*\b(alt|...)\b.*", l), l the string in lower case
CampusMatches(pattern, l) ==
    \E alt \in pattern.alts : \E i \in 1..Len(l) :
        LET end == PiecesEnd(l, i, alt)
        IN  WordStartsAt(l, i) /\ end # 0 /\ WordEndsBefore(l, end)

\* "california" in u.lower() or u.lower().startswith("uc")
LooksCalifornian(u) == Contains(Lower(u), "california") \/ StartsWith(Lower(u), "uc")

\* the campus patterns u matches, (?i)
CampusesOf(u) ==
    LET l == Lower(u)
    IN  {n \in DOMAIN UC_CAMPUS_PATTERNS : CampusMatches(UC_CAMPUS_PATTERNS[n], l)}

\* the first campus pattern u matches, 0 if none
FirstCampus(u) ==
    LET ns == CampusesOf(u)
    IN  IF ns = {} THEN 0 ELSE CHOOSE n \in ns : \A k \in ns : n <= k

\* u as _post_normalize_university has it before the campus patterns
CleanedUniversity(uni) ==
    LET u == Strip(StripParenthetical(COMMON_UNI_FIXES(ABBREV_UNI(Strip(uni)))))
    IN  IF u # "" THEN OfToLower(Title(u), 1) ELSE u

\* generic matching ahead of the campus patterns
GenericFirst(uni, canon_unis) ==
    LET u == CleanedUniversity(uni)
        match == best_match(u, canon_unis, 86)
        campus == FirstCampus(u)
    IN  IF InSeq(u, canon_unis) THEN u
        ELSE IF match # "None" THEN match
        ELSE IF LooksCalifornian(u) /\ campus # 0
             THEN UC_CAMPUS_PATTERNS[campus].canonical
        ELSE IF u # "" THEN u ELSE "Unknown"

\* _post_normalize_university(uni)
post_normalize_university(uni, canon_unis) ==
    LET u == CleanedUniversity(uni)
        match == best_match(u, canon_unis, 86)
        campus == FirstCampus(u)
    IN  IF LooksCalifornian(u) /\ campus # 0
        THEN UC_CAMPUS_PATTERNS[campus].canonical
        ELSE IF InSeq(u, canon_unis) THEN u
        ELSE IF match # "None" THEN match
        ELSE IF u # "" THEN u ELSE "Unknown"

\* the completions of the model: loading it or the call raises, or the content is
\* "invalid" (json.loads raises JSONDecodeError), "not_object" (it loads to a
\* list or a scalar, obj.get raises AttributeError) or "object" (a dict, obj)
Completion(kind, obj) == [kind |-> kind, obj |-> obj]

\* obj.get(key, "")
Get(obj, key) == IF key \in DOMAIN obj THEN obj[key] ELSE ""

\* only json.JSONDecodeError caught
CatchesDecodeErrorOnly(kind) == kind = "invalid"

\* except (json.JSONDecodeError, AttributeError, TypeError)
Caught(kind) == kind \in {"invalid", "not_object"}

\* standardize(program_text): [raised, result]
standardize(program_text, completion, canon_unis, canon_progs) ==
    LET kind == completion.kind
        std == IF kind = "object"
               THEN << Strip(Get(completion.obj, "standardized_program")),
                       Strip(Get(completion.obj, "standardized_university")) >>
               ELSE split_fallback(program_text)
    IN  IF kind \in {"load_raises", "call_raises"} \/ (kind # "object" /\ ~Caught(kind))
        THEN [raised |-> TRUE, result |-> EmptyDict]
        ELSE [raised |-> FALSE,
              result |-> "standardized_program" :>
                             post_normalize_program(std[1], canon_progs)
                         @@ "standardized_university" :>
                             post_normalize_university(std[2], canon_unis)]

(***************************************************************************)
VARIABLES
    proc,           \* which program runs: "app" (Flask) or "scrape" (scrape.py)
    pc,             \* position of the running invocation
    outcome,        \* "" while running, "returned" or "raised" when it ended
    response,       \* pull_data: the HTTP response [status, error]
    conn_calls,     \* pull_data: the methods called on the connection, in order
    trace,          \* what the invocation did so far: policy checks, sleeps, fetches
    site_allows,    \* environment: does robots.txt allow base_url for our agent
    applicants,     \* the committed applicants table, in insertion order
    txn,            \* the table as the open connection sees it (uncommitted included)
    max_pages,      \* the page cap (scrape_data: 0 stands for None, no cap)
    pages_to_check, \* pull_data: min(total_pages, max_pages)
    pages_to_fetch, \* scrape_data: pages it will consider
    page_num,       \* loop variable of both crawls
    html,           \* last fetched page: [rows, total_pages], the records it
                    \* parses to and the page its pagination links go up to
    row_idx,        \* pull_data: index in rows of the next record to insert
    total_scraped, total_inserted, pages_fetched, page_inserted,
    cleaned_gre, cleaned_uc,
    ignore_robots, delay, all_results,   \* scrape_data
    crawl_delay,    \* RobotsChecker.crawl_delay (NoDelay for None)
    req_delay,      \* history: the delay scrape_data was called with
    started,        \* history: the committed table when the invocation connected
    seen,           \* history: urls of the records pull_data handed to insert_row
    last,           \* history: the last insert_row call [url, existed, ret, at]
    doc,            \* parse_survey: the page it is called on
    parsed,         \* parse_survey: [called, raised, results] of the call
    ingested,       \* pull_data: the applicants table as its cursor sees it
    calls,          \* history: the insert_row calls [row, before, params, ret]
    anchors,        \* get_max_pages: the hrefs of the a tags of the page
    max_page,       \* get_max_pages: [called, value] of the call
    db_rows,        \* concurrent pulls: the committed rows [url, by]
    sessions,       \* concurrent pulls: each connection's transaction
    std_text,       \* llm_standardizer: the string standardize is called on
    llm_out,        \* llm_standardizer: what the model does when it is asked
    CANON_UNIS,     \* llm_standardizer: the lines of canon_universities.txt
    CANON_PROGS,    \* llm_standardizer: the lines of canon_programs.txt
    std_result,     \* llm_standardizer: [op, raised, result, uni] of the call
    store,          \* cleanup_data: the applicants table, rows [p_id, gre_aw]
    fix_pc,         \* cleanup_data: position of the running fix_gre_aw
    fix_count,      \* cleanup_data: fix_gre_aw's local count
    runs,           \* history: the runs of fix_gre_aw that returned
    writes,         \* history: the writes of other connections so far
    uc_pc,          \* cleanup_data: position of the running fix_uc_universities
    uc_rows,        \* cleanup_data: rows fetched by its SELECT, not yet looked at
    uc_updated,     \* cleanup_data: fix_uc_universities's local updated
    uc_runs,        \* history: the runs of fix_uc_universities
    isPulling,      \* dashboard.js: the busy flag of each open dashboard page
    requests,       \* the POST /pull-data requests under way: [tab, at, status]
    shown,          \* dashboard.js: the status each page shows of its last pull
    ignored,        \* history: the clicks on Pull Data a busy page did not take
    refused         \* history: the requests pull_data answered without a crawl

vars == << proc, pc, outcome, response, conn_calls, trace, site_allows, applicants, txn,
           max_pages, pages_to_check, pages_to_fetch, page_num, html, row_idx,
           total_scraped, total_inserted, pages_fetched, page_inserted,
           cleaned_gre, cleaned_uc, ignore_robots, delay, all_results,
           crawl_delay, req_delay, started, seen, last, doc, parsed,
           ingested, calls, anchors, max_page, db_rows, sessions,
           std_text, llm_out, CANON_UNIS, CANON_PROGS, std_result,
           store, fix_pc, fix_count, runs, writes,
           uc_pc, uc_rows, uc_updated, uc_runs,
           isPulling, requests, shown, ignored, refused >>

\* the state of the functions checked on their own, which no crawl touches
linkVars == << anchors, max_page >>
connVars == << db_rows, sessions >>
parseVars == << doc, parsed, ingested, calls, linkVars, connVars >>
stdVars == << std_text, llm_out, CANON_UNIS, CANON_PROGS, std_result >>
ucLocals == << uc_pc, uc_rows, uc_updated, uc_runs >>
cleanupVars == << store, fix_pc, fix_count, runs, writes, ucLocals >>
boundaryVars == << isPulling, requests, shown, ignored, refused >>
others == << parseVars, stdVars, cleanupVars, boundaryVars >>
\* the state of the crawls
crawl == << pc, outcome, response, conn_calls, trace, site_allows, applicants, txn,
            max_pages, pages_to_check, pages_to_fetch, page_num, html, row_idx,
            total_scraped, total_inserted, pages_fetched, page_inserted,
            cleaned_gre, cleaned_uc, ignore_robots, delay, all_results,
            crawl_delay, req_delay, started, seen, last >>

dbVars == << applicants, txn >>
pullLocals == << pages_to_check, row_idx, total_scraped, total_inserted,
                 pages_fetched, page_inserted, cleaned_gre, cleaned_uc >>
scrapeLocals == << ignore_robots, delay, all_results, pages_to_fetch,
                   crawl_delay, req_delay >>
history == << started, seen, last >>

(***************************************************************************)
(* The applicants table and the statements run against it.                 *)
(***************************************************************************)
UrlsOf(table) == {table[i].url : i \in DOMAIN table}

RECURSIVE Replace(_, _, _)
\* str.replace(old, new), old not empty
Replace(s, old, new) ==
    LET i == Find(s, old)
    IN  IF i = 0 THEN s
        ELSE SubSeq(s, 1, i - 1) \o new \o Replace(From(s, i + Len(old)), old, new)

\* str.replace(old, new, 1), old not empty
ReplaceFirst(s, old, new) ==
    LET i == Find(s, old)
    IN  IF i = 0 THEN s ELSE SubSeq(s, 1, i - 1) \o new \o From(s, i + Len(old))

RECURSIVE ToInt(_)
\* int(digits)
ToInt(digits) ==
    IF digits = "" THEN 0
    ELSE 10 * ToInt(SubSeq(digits, 1, Len(digits) - 1))
             + (IndexIn(Char(digits, Len(digits)), DigitChars) - 1)

RECURSIVE Pow10(_)
Pow10(n) == IF n = 0 THEN 1 ELSE 10 * Pow10(n - 1)

\* the byte "\x00", written as the text of its escape
NUL == "\\x00"

\* load_data.clean_text: (value or "").replace("\x00", "")
clean_text(value) == Replace(value, NUL, "")

\* digits, single underscores allowed between them
DigitsU(t) ==
    /\ t # "" /\ IsDigit(Head(t)) /\ IsDigit(Char(t, Len(t)))
    /\ \A i \in 1..Len(t) : IsDigit(Char(t, i)) \/ Char(t, i) = "_"
    /\ ~Contains(t, "__")

\* the position of the first e or E of t, 0 if none
ExpMark(t) ==
    IF \E i \in 1..Len(t) : Char(t, i) \in {"e", "E"}
    THEN CHOOSE i \in 1..Len(t) :
            Char(t, i) \in {"e", "E"} /\ \A j \in 1..(i - 1) : Char(t, j) \notin {"e", "E"}
    ELSE 0

Unsigned(t) == IF t # "" /\ Head(t) \in {"+", "-"} THEN Tail(t) ELSE t
Mantissa(t) == IF ExpMark(t) = 0 THEN t ELSE SubSeq(t, 1, ExpMark(t) - 1)
Exponent(t) == IF ExpMark(t) = 0 THEN "0" ELSE From(t, ExpMark(t) + 1)
IntPart(m) == IF Find(m, ".") = 0 THEN m ELSE SubSeq(m, 1, Find(m, ".") - 1)
FracPart(m) == IF Find(m, ".") = 0 THEN "" ELSE From(m, Find(m, ".") + 1)

\* the strings float() takes (already stripped): a decimal with an optional
\* exponent, or inf, infinity, nan in any case, each with an optional sign
IsFloatText(s) ==
    LET t == Unsigned(s)
        m == Mantissa(t)
    IN  \/ Lower(t) \in {"inf", "infinity", "nan"}
        \/ /\ IntPart(m) = "" \/ DigitsU(IntPart(m))
           /\ FracPart(m) = "" \/ DigitsU(FracPart(m))
           /\ IntPart(m) \o FracPart(m) # ""
           /\ DigitsU(Unsigned(Exponent(t)))

\* what Postgres makes of the float values that are no numbers: both compare
\* above every number, NaN above Infinity
Infinity == 1000000000
NaN == 2000000000

\* float(s) of such a string, in hundredths (to the hundredth nearer zero)
FloatValue(s) ==
    LET t == Unsigned(s)
        m == Mantissa(t)
        digits == Replace(IntPart(m) \o FracPart(m), "_", "")
        e == Exponent(t)
        exp == (IF Head(e) = "-" THEN -1 ELSE 1) * ToInt(Replace(Unsigned(e), "_", ""))
        shift == exp + 2 - Len(Replace(FracPart(m), "_", ""))
        magnitude == IF shift >= 0 THEN ToInt(digits) * Pow10(shift)
                     ELSE ToInt(digits) \div Pow10(-shift)
        sign == IF Head(s) = "-" THEN -1 ELSE 1
    IN  IF Lower(t) = "nan" THEN NaN
        ELSE IF Lower(t) \in {"inf", "infinity"} THEN sign * Infinity
        ELSE sign * magnitude

\* 0.0 for None where float(s) raises ValueError
ZeroOnValueError(s) ==
    IF s = "" THEN Null ELSE IF IsFloatText(s) THEN FloatValue(s) ELSE 0

\* "try: return float(s) if s else None / except ValueError: return None"
FloatOrNone(s) == IF s # "" /\ IsFloatText(s) THEN FloatValue(s) ELSE Null

\* load_data.parse_float(value, prefix), prefix not empty: the score in
\* hundredths, Null for None
parse_float(value, prefix) == FloatOrNone(Strip(ReplaceFirst(value, prefix, "")))

MonthNames ==
    << "january", "february", "march", "april", "may", "june", "july", "august",
       "september", "october", "november", "december" >>

\* days of month m of year y
DaysIn(m, y) ==
    IF m = 2
    THEN (IF y % 4 = 0 /\ (y % 100 # 0 \/ y % 400 = 0) THEN 29 ELSE 28)
    ELSE IF m \in {4, 6, 9, 11} THEN 30 ELSE 31

\* None as date_val
NoDate == [year |-> 0, month |-> 0, day |-> 0]

\* datetime.strptime(date_str, "%B %d, %Y").date(), NoDate where it raises
\* ValueError: the month name in any case, \s+, the day as one or two digits,
\* a comma, \s+, the year as four digits, and nothing else; then a date that
\* exists
strptime(date_str) ==
    LET l == Lower(date_str)
        months == {m \in 1..12 : StartsWith(l, MonthNames[m])}
        month == CHOOSE m \in months : TRUE
        after_month == From(l, Len(MonthNames[month]) + 1)
        from_day == LStrip(after_month, {" "})
        comma == Find(from_day, ",")
        d == SubSeq(from_day, 1, comma - 1)
        after_comma == From(from_day, comma + 1)
        y == LStrip(after_comma, {" "})
    IN  IF /\ months # {}
           /\ Len(from_day) < Len(after_month)
           /\ comma # 0
           /\ AllDigits(d) /\ Len(d) <= 2 /\ ToInt(d) \in 1..31
           /\ Len(y) < Len(after_comma)
           /\ AllDigits(y) /\ Len(y) = 4 /\ ToInt(y) >= 1
           /\ ToInt(d) <= DaysIn(month, ToInt(y))
        THEN [year |-> ToInt(y), month |-> month, day |-> ToInt(d)]
        ELSE NoDate

\* row.get(key, "")
GetOr(row, key) == IF key \in DOMAIN row THEN row[key] ELSE ""

\* the params insert_row builds from a record of parse_survey whose comments
\* pull_data has joined
Params(row) ==
    [program |-> clean_text(GetOr(row, "program")),
     comments |-> clean_text(GetOr(row, "comments")),
     date_added |-> strptime(Replace(clean_text(GetOr(row, "date_added")),
                                     "Added on ", "")),
     url |-> clean_text(GetOr(row, "url")),
     status |-> clean_text(GetOr(row, "status")),
     term |-> clean_text(GetOr(row, "term")),
     us_or_international |-> clean_text(GetOr(row, "US/International")),
     gpa |-> parse_float(GetOr(row, "GPA"), "GPA"),
     gre |-> parse_float(GetOr(row, "GRE"), "GRE"),
     gre_v |-> parse_float(GetOr(row, "GRE V"), "GRE V"),
     gre_aw |-> parse_float(GetOr(row, "GRE AW"), "GRE AW"),
     degree |-> clean_text(GetOr(row, "Degree")),
     llm_program |-> "",
     llm_university |-> ""]

\* cur.execute(query, params): INSERT ... ON CONFLICT (url) DO NOTHING on a
\* table whose url column is UNIQUE; cur.rowcount > 0
Execute(table, params) ==
    IF params.url \in UrlsOf(table)
    THEN [table |-> table, inserted |-> FALSE]
    ELSE [table |-> Append(table, params), inserted |-> TRUE]

\* parse_float(row.get("GRE AW", ""), "GRE AW") of the texts the records of
\* the crawls carry, computed once
GreAwOf == [text \in AwTexts |-> parse_float(text, "GRE AW")]

\* the columns the crawls follow of the params insert_row builds from a
\* record: url, program, gre_aw and llm_generated_university (always "")
RowOf(record) ==
    [url     |-> record.url,
     program |-> record.program,
     gre_aw  |-> GreAwOf[record.aw],
     uni     |-> ""]

\* INSERT ... ON CONFLICT (url) DO NOTHING without the ON CONFLICT clause and
\* without the UNIQUE constraint: the row is always written
InsertAlways(table, record) ==
    [table |-> Append(table, RowOf(record)), inserted |-> TRUE]

\* INSERT ... ON CONFLICT (url) DO UPDATE: an existing row is overwritten
InsertOrUpdate(table, record) ==
    IF record.url \in UrlsOf(table)
    THEN [table |-> [i \in DOMAIN table |->
                        IF table[i].url = record.url THEN RowOf(record) ELSE table[i]],
          inserted |-> TRUE]
    ELSE [table |-> Append(table, RowOf(record)), inserted |-> TRUE]

\* rowcount > 0 reported although the row was skipped
InsertReportsTrue(table, record) ==
    IF record.url \in UrlsOf(table)
    THEN [table |-> table, inserted |-> TRUE]
    ELSE [table |-> Append(table, RowOf(record)), inserted |-> TRUE]

\* insert_row: INSERT ... ON CONFLICT (url) DO NOTHING on a table whose url
\* column is UNIQUE; returns cur.rowcount > 0
insert_row(table, record) == Execute(table, RowOf(record))

\* the count with >= for >
CountAtOrAbove(table) ==
    Cardinality({i \in DOMAIN table : table[i].gre_aw >= 100 * GreAwMax})

\* SELECT COUNT(*) FROM applicants WHERE gre_aw > 6 (NULL > 6 is not true)
CountAbove(table) ==
    Cardinality({i \in DOMAIN table : table[i].gre_aw > 100 * GreAwMax})

\* the update reaching one row only
NullFirstAbove(table) ==
    [i \in DOMAIN table |->
        IF /\ table[i].gre_aw > 100 * GreAwMax
           /\ \A j \in 1..(i - 1) : ~(table[j].gre_aw > 100 * GreAwMax)
        THEN [table[i] EXCEPT !.gre_aw = Null] ELSE table[i]]

\* the update without its WHERE clause
NullAll(table) == [i \in DOMAIN table |-> [table[i] EXCEPT !.gre_aw = Null]]

\* UPDATE applicants SET gre_aw = NULL WHERE gre_aw > 6
NullAbove(table) ==
    [i \in DOMAIN table |->
        IF table[i].gre_aw > 100 * GreAwMax THEN [table[i] EXCEPT !.gre_aw = Null]
        ELSE table[i]]

\* fix_gre_aw on a connection no other writes to: the count, and the update
\* "if count > 0"
fix_gre_aw(table) ==
    [table |-> IF CountAbove(table) > 0 THEN NullAbove(table) ELSE table,
     count |-> CountAbove(table)]

\* what load_data stored in program, llm_generated_university and gre_aw
Loaded ==
    { [program |-> "Physics, UCLA", uni |-> "University of California", gre_aw |-> 650],
      [program |-> "Physics, MIT", uni |-> "UC Berkeley", gre_aw |-> 500],
      [program |-> "Biology, UCSD", uni |-> "Duc Hanoi", gre_aw |-> Null],
      [program |-> "Physics, Riverside", uni |-> "Stanford University", gre_aw |-> 700],
      [program |-> "Math", uni |-> "university of california", gre_aw |-> 450] }

\* the program and university texts of the model
Names ==
    Programs \cup {""} \cup {r.program : r \in Loaded} \cup {r.uni : r \in Loaded}
        \cup {UC_CAMPUS_PATTERNS[n].canonical : n \in DOMAIN UC_CAMPUS_PATTERNS}

\* WHERE llm_generated_university ILIKE '%University of California%'
\*    OR ... ILIKE '%UC %' OR ... ILIKE 'Uc %'  (ILIKE ignores case)
UcLike(uni) ==
    LET l == Lower(uni)
    IN  \/ Contains(l, "university of california")
        \/ Contains(l, "uc ")
        \/ StartsWith(l, "uc ")

\* UcLike of the texts of the model, computed once
UcLikeOf == [uni \in Names |-> UcLike(uni)]

\* normalize_uc: the canonical name of the first campus pattern that matches
\* the whole of name, "" for None (UC_CAMPUS_PATTERNS of cleanup_data.py is
\* the list of llm_standardizer.py, pattern for pattern)
normalize_uc(name) ==
    LET n == FirstCampus(name)
    IN  IF n = 0 THEN "" ELSE UC_CAMPUS_PATTERNS[n].canonical

\* normalize_uc of the texts of the model, computed once
NormalizeUcOf == [name \in Names |-> normalize_uc(name)]

\* new_uni = normalize_uc(program or ""); if not new_uni:
\*     new_uni = normalize_uc(current_uni or "")
NewUni(program, current_uni) ==
    LET from_program == NormalizeUcOf[program]
    IN  IF from_program # "" THEN from_program ELSE NormalizeUcOf[current_uni]

\* the update made whenever a campus is found, equal to the stored one or not
UpdatesWheneverFound(new_uni, current_uni) == new_uni # ""

\* "if new_uni and new_uni != current_uni"
ShouldUpdate(new_uni, current_uni) == new_uni # "" /\ new_uni # current_uni

\* fix_uc_universities inside one transaction (pull_data): re-resolve the
\* selected rows from program, then from the stored value; update when a
\* campus is found and differs
fix_uc_universities(table) ==
    LET newUni == [i \in DOMAIN table |->
                      IF UcLikeOf[table[i].uni]
                      THEN NewUni(table[i].program, table[i].uni) ELSE ""]
        hit == {i \in DOMAIN table :
                   UcLikeOf[table[i].uni] /\ ShouldUpdate(newUni[i], table[i].uni)}
    IN  [table |-> [i \in DOMAIN table |->
                      IF i \in hit THEN [table[i] EXCEPT !.uni = newUni[i]]
                      ELSE table[i]],
         count |-> Cardinality(hit)]

(***************************************************************************)
(* Inputs and environment answers.                                         *)
(***************************************************************************)
\* the "max_pages" value of the request body: not an integer, or an integer
RawMaxPages ==
    {[kind |-> "bad", v |-> 0]} \cup {[kind |-> "int", v |-> n] : n \in {-1, 2, 600}}

\* pages the site can serve to pull_data: the records and the pagination links
PullHtml == [rows : PullPages, total_pages : 1..MaxSitePages]

NoHtml == [rows |-> <<>>, total_pages |-> 1]
NoResponse == [status |-> 0, error |-> ""]
\* no page handed to parse_survey yet
NoDoc == [table |-> FALSE, tbody |-> FALSE, rows |-> <<>>]
NotParsed == [called |-> FALSE, raised |-> FALSE, results |-> <<>>]
NoCall == [called |-> FALSE, record |-> [url |-> "", program |-> "", aw |-> ""],
           before |-> <<>>, ret |-> FALSE]

Event(ev, page, n) == [ev |-> ev, page |-> page, n |-> n]

\* the loop going on to the fetch at once
NoSleep(page, seconds) == <<>>

\* time.sleep(delay) of the turn of a page, as the trace records it
Sleep(page, seconds) == << Event("sleep", page, seconds) >>

\* rows = _parse(html): the site of the crawls is known by the records its
\* pages parse to; get_max_pages on a fetched page
PageRows(h) == h.rows

\* the first place where r"\?page=(\d+)" matches href, 0 if it matches nowhere
PageMatch(href) ==
    LET at == {i \in 1..Len(href) :
                  /\ OccursAt(href, "?page=", i) /\ i + 6 <= Len(href)
                  /\ IsDigit(Char(href, i + 6))}
    IN  IF at = {} THEN 0 ELSE CHOOSE i \in at : \A j \in at : i <= j

RECURSIVE DigitRun(_)
\* the digits s begins with
DigitRun(s) ==
    IF s # "" /\ IsDigit(Head(s)) THEN Head(s) \o DigitRun(Tail(s)) ELSE ""

\* int(match.group(1))
PageNum(href) == ToInt(DigitRun(From(href, PageMatch(href) + 6)))

RECURSIVE MaxPageFrom(_, _)
\* "for link in page_links": max_page after the anchors whose href the pattern
\* matches, from the value it has before them
MaxPageFrom(largest, hrefs) ==
    IF hrefs = <<>> THEN largest
    ELSE MaxPageFrom(IF PageMatch(Head(hrefs)) # 0
                     THEN Max(largest, PageNum(Head(hrefs))) ELSE largest,
                     Tail(hrefs))

\* max_page started at 0
MaxPageFromZero(hrefs) == MaxPageFrom(0, hrefs)

\* get_max_pages(html), html known by the hrefs of its a tags in document order
get_max_pages(hrefs) == MaxPageFrom(1, hrefs)

\* the pagination links of a page of a site of k pages
PaginationLinks(k) ==
    IF k = 1 THEN <<>>
    ELSE [i \in 1..k |-> "/survey/?page=" \o SubSeq(DigitChars, i + 1, i + 1)]

\* get_max_pages(html) of the pages of the crawls, computed once
TotalPagesOf == [k \in 1..MaxSitePages |-> get_max_pages(PaginationLinks(k))]

(***************************************************************************)
(* pull_data (POST /pull-data).                                            *)
(***************************************************************************)
\* max(1, min(int(raw_max), 500)), 100 when raw_max is no integer
ClampMaxPages(raw) ==
    IF raw.kind = "int" THEN Max(1, Min(raw.v, MaxPagesLimit)) ELSE DefaultMaxPages

\* the page cap ignored: every page of the site is checked
PagesToCheckAll(total, cap) == total

\* pages_to_check = min(total_pages, max_pages)
PagesToCheck(total, cap) == Min(total, cap)

\* the caught-up test dropped: the loop never stops on an all-duplicate page
NeverCaughtUp(inserted) == FALSE

\* "if page_inserted == 0: break"
CaughtUp(inserted) == inserted = 0

\* "if not rows: break"
NoRows(rows) == rows = <<>>

\* the error path answers 500 and closes without rolling back
FailWithoutRollback(error) ==
    /\ txn' = applicants
    /\ conn_calls' = conn_calls \o << "close" >>
    /\ response' = [status |-> 500, error |-> error]
    /\ outcome' = "returned"
    /\ pc' = "done"
    /\ UNCHANGED applicants

\* the error path commits what the invocation wrote so far
CommitThenFail(error) ==
    /\ applicants' = txn
    /\ txn' = txn
    /\ conn_calls' = conn_calls \o << "commit", "close" >>
    /\ response' = [status |-> 500, error |-> error]
    /\ outcome' = "returned"
    /\ pc' = "done"

\* conn.rollback(); conn.close(); return jsonify({"error": ...}), 500
Rollback(error) ==
    /\ txn' = applicants
    /\ conn_calls' = conn_calls \o << "rollback", "close" >>
    /\ response' = [status |-> 500, error |-> error]
    /\ outcome' = "returned"
    /\ pc' = "done"
    /\ UNCHANGED applicants

\* an exception no except clause of pull_data names leaves the handler: the
\* connection is dropped without commit, so its transaction is discarded
Propagate ==
    /\ txn' = applicants
    /\ response' = [status |-> 500, error |-> "Internal Server Error"]
    /\ outcome' = "raised"
    /\ pc' = "done"
    /\ UNCHANGED << applicants, conn_calls >>

\* the request arrives: validate max_pages, connect, zero the counters
PullStart ==
    /\ proc = "app"
    /\ pc \in {"idle", "done"}
    /\ \E raw \in RawMaxPages : max_pages' = ClampMaxPages(raw)
    /\ pages_to_check' = 0 /\ page_num' = 0 /\ html' = NoHtml /\ row_idx' = 0
    /\ total_scraped' = 0 /\ total_inserted' = 0
    /\ pages_fetched' = 0 /\ page_inserted' = 0
    /\ cleaned_gre' = 0 /\ cleaned_uc' = 0
    /\ trace' = <<>>
    /\ started' = applicants /\ seen' = {} /\ last' = NoCall
    /\ txn' = applicants
    /\ conn_calls' = <<>>
    /\ \/ /\ pc' = "fetch_first"
          /\ outcome' = ""
          /\ response' = NoResponse
       \/ \* psycopg.connect raises OperationalError
          /\ pc' = "done"
          /\ outcome' = "returned"
          /\ response' = [status |-> 500, error |-> "Database connection failed"]
    /\ UNCHANGED << proc, others, site_allows, applicants, scrapeLocals >>

\* html = _fetch(base_url); total_pages = _maxpg(html); pages_to_check = min(...)
PullFetchFirst ==
    /\ pc = "fetch_first"
    /\ \/ /\ \E h \in PullHtml :
                /\ html' = h
                /\ pages_to_check' = PagesToCheck(TotalPagesOf[h.total_pages], max_pages)
          /\ page_num' = 1
          /\ trace' = Append(trace, Event("fetch", 1, 0))
          /\ pc' = "parse"
          /\ UNCHANGED << outcome, response, conn_calls, dbVars >>
       \/ \* _fetch raises URLError or HTTPError
          /\ Rollback("Network error during scrape")
          /\ trace' = trace \o << Event("fetch", 1, 0), Event("URLError", 1, 0) >>
          /\ UNCHANGED << html, pages_to_check, page_num >>
       \/ \* _fetch raises anything else (UnicodeDecodeError, HTTPException)
          /\ Propagate
          /\ trace' = trace \o << Event("fetch", 1, 0), Event("HTTPException", 1, 0) >>
          /\ UNCHANGED << html, pages_to_check, page_num >>
    /\ UNCHANGED << proc, others, site_allows, max_pages, row_idx, total_scraped,
                    total_inserted, pages_fetched, page_inserted, cleaned_gre,
                    cleaned_uc, scrapeLocals, history >>

\* time.sleep(delay); html = _fetch(page_url) for page_num > 1
PullFetchNext ==
    /\ pc = "fetch"
    /\ \/ /\ \E h \in PullHtml :
                /\ h.total_pages = html.total_pages
                /\ html' = h
          /\ trace' = trace \o Sleep(page_num, PullDelay)
                                \o << Event("fetch", page_num, 0) >>
          /\ pc' = "parse"
          /\ UNCHANGED << outcome, response, conn_calls, dbVars >>
       \/ /\ Rollback("Network error during scrape")
          /\ trace' = trace \o Sleep(page_num, PullDelay)
                                \o << Event("fetch", page_num, 0),
                                  Event("URLError", page_num, 0) >>
          /\ UNCHANGED html
       \/ /\ Propagate
          /\ trace' = trace \o Sleep(page_num, PullDelay)
                                \o << Event("fetch", page_num, 0),
                                  Event("HTTPException", page_num, 0) >>
          /\ UNCHANGED html
    /\ UNCHANGED << proc, others, site_allows, max_pages, page_num, pullLocals,
                    scrapeLocals, history >>

\* rows = _parse(html); if not rows: break; pages_fetched += 1; page_inserted = 0
PullParse ==
    /\ pc = "parse"
    /\ trace' = Append(trace, Event("parse", page_num, Len(PageRows(html))))
    /\ IF NoRows(PageRows(html))
       THEN /\ pc' = "cleanup"
            /\ UNCHANGED << pages_fetched, page_inserted, row_idx >>
       ELSE /\ pc' = "insert"
            /\ pages_fetched' = pages_fetched + 1
            /\ page_inserted' = 0
            /\ row_idx' = 1
    /\ UNCHANGED << proc, others, outcome, response, conn_calls, site_allows, dbVars, max_pages,
                    pages_to_check, page_num, html, total_scraped, total_inserted,
                    cleaned_gre, cleaned_uc, scrapeLocals, history >>

\* one turn of "for row in rows": total_scraped += 1; if insert_row(cur, row): ...
PullInsertRow ==
    /\ pc = "insert"
    /\ row_idx <= Len(PageRows(html))
    /\ total_scraped' = total_scraped + 1
    /\ \/ LET record == PageRows(html)[row_idx]
              r == insert_row(txn, record)
          IN  /\ txn' = r.table
              /\ total_inserted' = IF r.inserted THEN total_inserted + 1 ELSE total_inserted
              /\ page_inserted' = IF r.inserted THEN page_inserted + 1 ELSE page_inserted
              /\ row_idx' = row_idx + 1
              /\ seen' = seen \cup {record.url}
              /\ last' = [called |-> TRUE, record |-> record,
                          before |-> txn, ret |-> r.inserted]
              /\ UNCHANGED << pc, outcome, response, conn_calls, applicants, started >>
       \/ \* cur.execute raises psycopg.Error
          /\ Rollback("Database error during scrape")
          /\ UNCHANGED << total_inserted, page_inserted, row_idx, history >>
    /\ UNCHANGED << proc, others, trace, site_allows, max_pages, pages_to_check, page_num,
                    html, pages_fetched, cleaned_gre, cleaned_uc, scrapeLocals >>

\* the end of one page: caught up, or on to the next page, or out of pages
PullPageEnd ==
    /\ pc = "insert"
    /\ row_idx > Len(PageRows(html))
    /\ IF CaughtUp(page_inserted) \/ page_num + 1 > pages_to_check
       THEN pc' = "cleanup" /\ UNCHANGED page_num
       ELSE pc' = "fetch" /\ page_num' = page_num + 1
    /\ trace' = Append(trace, Event("inserted", page_num, page_inserted))
    /\ last' = NoCall
    /\ UNCHANGED << proc, others, outcome, response, conn_calls, site_allows, dbVars, max_pages,
                    html, pullLocals, scrapeLocals, started, seen >>

\* "if total_inserted > 0": fix_gre_aw(conn); fix_uc_universities(conn)
PullCleanup ==
    /\ pc = "cleanup"
    /\ IF total_inserted > 0
       THEN \/ LET g == fix_gre_aw(txn)
                   u == fix_uc_universities(g.table)
               IN  /\ txn' = u.table
                   /\ cleaned_gre' = g.count
                   /\ cleaned_uc' = u.count
                   /\ trace' = Append(trace, Event("cleanup", 0, g.count + u.count))
                   /\ pc' = "commit"
                   /\ UNCHANGED << outcome, response, conn_calls, applicants >>
            \/ \* a cleanup statement raises psycopg.Error
               /\ Rollback("Cleanup error")
               /\ UNCHANGED << cleaned_gre, cleaned_uc, trace >>
       ELSE /\ pc' = "commit"
            /\ UNCHANGED << outcome, response, conn_calls, dbVars, cleaned_gre, cleaned_uc, trace >>
    /\ UNCHANGED << proc, others, site_allows, max_pages, pages_to_check, page_num, html,
                    row_idx, total_scraped, total_inserted, pages_fetched,
                    page_inserted, scrapeLocals, history >>

\* conn.commit(); conn.close(); return jsonify({...})
PullCommit ==
    /\ pc = "commit"
    /\ applicants' = txn
    /\ conn_calls' = conn_calls \o << "commit", "close" >>
    /\ response' = [status |-> 200, error |-> ""]
    /\ outcome' = "returned"
    /\ pc' = "done"
    /\ UNCHANGED << proc, others, trace, site_allows, txn, max_pages, page_num, html,
                    pullLocals, scrapeLocals, history >>

(***************************************************************************)
(* scrape_data (scrape.py) and the robots.txt checker it consults.         *)
(***************************************************************************)
\* the --pages argument as main() passes it on: 0 stands for None (all pages)
ScrapeMaxPages == {0, 1, 2}
\* the --delay argument, in tenths of a second
ScrapeDelays == {5, 20}
\* RobotFileParser.crawl_delay(agent): None or the Crawl-delay of robots.txt
CrawlDelays == {NoDelay, 10, 30}

\* what fetch_page and parse_survey can raise: URLError and HTTPError are
\* OSErrors, UnicodeDecodeError is a ValueError, http.client.HTTPException
\* (IncompleteRead, BadStatusLine) is neither
FetchErrors == {"OSError", "ValueError", "HTTPException"}

\* pages the site can serve to scrape_data
ScrapeHtml == [rows : ScrapePages, total_pages : 1..MaxSitePages]

\* the stricter of the two delays
StricterDelay(policy_delay, default) ==
    IF policy_delay # NoDelay /\ policy_delay > default THEN policy_delay ELSE default

\* the caller's delay is kept whatever robots.txt says
CallerDelay(policy_delay, default) == default

\* RobotsChecker.get_crawl_delay: policy_delay if it is not None, else default
get_crawl_delay(policy_delay, default) ==
    IF policy_delay # NoDelay THEN policy_delay ELSE default

\* pages_to_fetch = min(total_pages, max_pages) if max_pages else total_pages
PagesToFetch(total, cap) == IF cap # 0 THEN Min(total, cap) ELSE total

\* scrape_data is called with its arguments
ScrapeStart ==
    /\ proc = "scrape"
    /\ pc = "idle"
    /\ \E m \in ScrapeMaxPages : max_pages' = m
    /\ \E d \in ScrapeDelays : delay' = d /\ req_delay' = d
    /\ crawl_delay' = NoDelay
    /\ \E b \in BOOLEAN :
          /\ ignore_robots' = b
          /\ pc' = IF b THEN "s_first" ELSE "s_robots"
    /\ all_results' = <<>>
    /\ trace' = <<>>
    /\ UNCHANGED << proc, others, outcome, response, conn_calls, site_allows, dbVars, pages_to_check,
                    pages_to_fetch, page_num, html, row_idx, total_scraped,
                    total_inserted, pages_fetched, page_inserted, cleaned_gre,
                    cleaned_uc, history >>

\* the check of base_url never denies
BaseNeverDisallowed == FALSE

\* "not robots.can_fetch(base_url)"
BaseDisallowed == ~site_allows

\* robots = RobotsChecker(...); if not robots.can_fetch(base_url): return [];
\* delay = robots.get_crawl_delay(delay)
ScrapeRobots ==
    /\ pc = "s_robots"
    /\ trace' = Append(trace, Event("check", 1, IF site_allows THEN 1 ELSE 0))
    /\ \E cd \in CrawlDelays :
          /\ crawl_delay' = cd
          /\ IF BaseDisallowed
             THEN /\ outcome' = "returned"
                  /\ pc' = "done"
                  /\ UNCHANGED delay
             ELSE /\ delay' = get_crawl_delay(cd, delay)
                  /\ pc' = "s_first"
                  /\ UNCHANGED outcome
    /\ UNCHANGED << proc, others, response, conn_calls, site_allows, dbVars, max_pages, page_num, html,
                    pullLocals, ignore_robots, all_results, pages_to_fetch,
                    req_delay, history >>

\* html = fetch_page(base_url); results = PageRows(html); all_results.extend;
\* total_pages = get_max_pages(html); pages_to_fetch = ...
ScrapeFetchFirst ==
    /\ pc = "s_first"
    /\ \/ /\ \E h \in ScrapeHtml :
                /\ html' = h
                /\ all_results' = all_results \o PageRows(h)
                /\ pages_to_fetch' = PagesToFetch(TotalPagesOf[h.total_pages], max_pages)
                /\ trace' = trace \o << Event("fetch", 1, 0),
                                        Event("parse", 1, Len(PageRows(h))) >>
          /\ page_num' = 2
          /\ pc' = "s_loop"
          /\ UNCHANGED outcome
       \/ \* fetch_page raises outside any try: the exception leaves scrape_data
          /\ outcome' = "raised"
          /\ pc' = "done"
          /\ \E kind \in FetchErrors :
                trace' = trace \o << Event("fetch", 1, 0), Event(kind, 1, 0) >>
          /\ UNCHANGED << html, all_results, pages_to_fetch, page_num >>
    /\ UNCHANGED << proc, others, response, conn_calls, site_allows, dbVars, max_pages, pullLocals,
                    ignore_robots, delay, crawl_delay, req_delay, history >>

\* the page is fetched although robots.txt disallows it
NeverSkip(allowed) == FALSE

\* "if not ignore_robots and not robots.can_fetch(page_url): continue"
SkipPage(allowed) == ~ignore_robots /\ ~allowed

\* one turn of the loop up to the fetch: sleep, then the policy check of the page
ScrapeNextPage ==
    /\ pc = "s_loop"
    /\ page_num <= pages_to_fetch
    /\ \E allowed \in BOOLEAN :
          /\ ignore_robots => allowed
          /\ IF SkipPage(allowed)
             THEN /\ trace' = trace \o Sleep(page_num, delay)
                                        \o << Event("check", page_num, 0),
                                          Event("skip", page_num, 0) >>
                  /\ page_num' = page_num + 1
                  /\ pc' = "s_loop"
             ELSE /\ trace' = trace \o
                        (Sleep(page_num, delay) \o
                         IF ignore_robots THEN <<>>
                         ELSE << Event("check", page_num, IF allowed THEN 1 ELSE 0) >>)
                  /\ pc' = "s_fetch"
                  /\ UNCHANGED page_num
    /\ UNCHANGED << proc, others, outcome, response, conn_calls, site_allows, dbVars, max_pages, html,
                    pullLocals, scrapeLocals, history >>

\* no except clause: every exception of a page leaves scrape_data
CatchesNothing(kind) == FALSE

\* "except (OSError, ValueError, UnicodeDecodeError)"
ScrapeCatches(kind) == kind \in {"OSError", "ValueError"}

\* the try block of the loop: fetch, parse, extend; OSError and ValueError are
\* caught and the loop continues; any other exception leaves scrape_data
ScrapeFetchPage ==
    /\ pc = "s_fetch"
    /\ \/ /\ \E h \in ScrapeHtml :
                /\ h.total_pages = html.total_pages
                /\ html' = h
                /\ all_results' = all_results \o PageRows(h)
                /\ trace' = trace \o << Event("fetch", page_num, 0),
                                        Event("parse", page_num, Len(PageRows(h))) >>
          /\ page_num' = page_num + 1
          /\ pc' = "s_loop"
          /\ UNCHANGED outcome
       \/ \E kind \in FetchErrors :
             /\ trace' = trace \o << Event("fetch", page_num, 0),
                                     Event(kind, page_num, 0) >>
             /\ IF ScrapeCatches(kind)
                THEN /\ page_num' = page_num + 1
                     /\ pc' = "s_loop"
                     /\ UNCHANGED outcome
                ELSE /\ outcome' = "raised"
                     /\ pc' = "done"
                     /\ UNCHANGED page_num
             /\ UNCHANGED << html, all_results >>
    /\ UNCHANGED << proc, others, response, conn_calls, site_allows, dbVars, max_pages, pullLocals,
                    ignore_robots, delay, pages_to_fetch, crawl_delay, req_delay,
                    history >>

\* the loop is over: return all_results
ScrapeReturn ==
    /\ pc = "s_loop"
    /\ page_num > pages_to_fetch
    /\ outcome' = "returned"
    /\ pc' = "done"
    /\ UNCHANGED << proc, others, response, conn_calls, trace, site_allows, dbVars, max_pages, page_num,
                    html, pullLocals, scrapeLocals, history >>

(***************************************************************************)
(* The specification.  The table is the one load_data.main creates: empty, *)
(* its url column UNIQUE.                                                  *)
(***************************************************************************)
\* no invocation of a crawl yet
CrawlIdle ==
    /\ pc = "idle"
    /\ outcome = ""
    /\ response = NoResponse
    /\ conn_calls = <<>>
    /\ trace = <<>>
    /\ applicants = <<>>
    /\ txn = <<>>
    /\ max_pages = 0
    /\ pages_to_check = 0
    /\ pages_to_fetch = 0
    /\ page_num = 0
    /\ html = NoHtml
    /\ row_idx = 0
    /\ total_scraped = 0 /\ total_inserted = 0
    /\ pages_fetched = 0 /\ page_inserted = 0
    /\ cleaned_gre = 0 /\ cleaned_uc = 0
    /\ ignore_robots = FALSE
    /\ delay = PullDelay
    /\ crawl_delay = NoDelay
    /\ req_delay = PullDelay
    /\ all_results = <<>>
    /\ started = <<>>
    /\ seen = {}
    /\ last = NoCall

NoMaxPage == [called |-> FALSE, value |-> 0]
LinksIdle == anchors = <<>> /\ max_page = NoMaxPage
ConnIdle == db_rows = <<>> /\ sessions = <<>>
ParseIdle ==
    /\ doc = NoDoc /\ parsed = NotParsed /\ ingested = <<>> /\ calls = <<>>
    /\ LinksIdle
    /\ ConnIdle

NoStdCall == [op |-> "", raised |-> FALSE, result |-> EmptyDict, uni |-> ""]
StdIdle ==
    /\ std_text = ""
    /\ llm_out = Completion("invalid", EmptyDict)
    /\ CANON_UNIS = <<>>
    /\ CANON_PROGS = <<>>
    /\ std_result = NoStdCall

CleanupIdle ==
    /\ store = <<>>
    /\ fix_pc = "idle"
    /\ fix_count = 0
    /\ runs = <<>>
    /\ writes = 0
    /\ uc_pc = "idle"
    /\ uc_rows = <<>>
    /\ uc_updated = 0
    /\ uc_runs = <<>>

BoundaryIdle ==
    /\ isPulling = <<>>
    /\ requests = <<>>
    /\ shown = <<>>
    /\ ignored = <<>>
    /\ refused = 0

Init ==
    /\ proc \in {"app", "scrape"}
    /\ site_allows \in BOOLEAN
    /\ CrawlIdle
    /\ ParseIdle
    /\ StdIdle
    /\ CleanupIdle
    /\ BoundaryIdle

Next ==
    \/ PullStart
    \/ PullFetchFirst
    \/ PullFetchNext
    \/ PullParse
    \/ PullInsertRow
    \/ PullPageEnd
    \/ PullCleanup
    \/ PullCommit
    \/ ScrapeStart
    \/ ScrapeRobots
    \/ ScrapeFetchFirst
    \/ ScrapeNextPage
    \/ ScrapeFetchPage
    \/ ScrapeReturn

Spec == Init /\ [][Next]_vars

(***************************************************************************)
(* parse_survey on its own: called once on a page drawn from the pages     *)
(* below.  Structure pages vary the markup and the kinds of rows; detail   *)
(* pages are a five-cell row followed by a one-cell row whose text nodes   *)
(* vary.                                                                   *)
(***************************************************************************)
\* tr rows in the tbody of a structure page
MaxTrs == 3
\* text nodes in the cell of a detail row
MaxParts == 2

MainRowA ==
    << Cell(<< "MIT" >>, <<>>), Cell(<< "Physics", "PhD" >>, <<>>),
       Cell(<< "Jan 1, 2026" >>, <<>>), Cell(<< "Accepted" >>, <<>>),
       Cell(<< "View" >>, << "/result/1" >>) >>
\* no degree, no status, no result link
MainRowB ==
    << Cell(<< " UCLA " >>, <<>>), Cell(<< "Math" >>, <<>>),
       Cell(<< "Feb 2, 2026" >>, <<>>), Cell(<<>>, <<>>),
       Cell(<<>>, << "/survey/" >>) >>
DetailRow(strings) == << Cell(strings, <<>>) >>
TwoCellRow == << Cell(<< "GRE 320" >>, <<>>), Cell(<< "x" >>, <<>>) >>
SixCellRow == MainRowA \o << Cell(<< "x" >>, <<>>) >>

StructRows ==
    {MainRowA, MainRowB, DetailRow(<< "GRE AW 4.5" >>), DetailRow(<< "Good luck" >>),
     TwoCellRow, SixCellRow}

Fragments ==
    {"Fall 2024", "International", "american", "GPA 3.90", "GRE V 160", "gre aw 4.5",
     "GRE Q 170", "GRE 320", "Great, accepted!", "Good luck",
     "Fall 2024 accepted", "GRE Q 170 accepted", "Accepted via email"}

StructPages == [table : BOOLEAN, tbody : BOOLEAN, rows : SeqsUpTo(StructRows, MaxTrs)]
DetailPages ==
    {[table |-> TRUE, tbody |-> TRUE, rows |-> << main, DetailRow(strings) >>] :
        main \in {MainRowA, MainRowB}, strings \in SeqsUpTo(Fragments, MaxParts)}
\* the detail row of a detail page met a second time under the same main row
RepeatPages ==
    {[table |-> TRUE, tbody |-> TRUE,
      rows |-> << main, DetailRow(strings), DetailRow(strings) >>] :
        main \in {MainRowA, MainRowB}, strings \in SeqsUpTo(Fragments, MaxParts)}
Pages == StructPages \cup DetailPages \cup RepeatPages

InitParse ==
    /\ proc = "parse"
    /\ site_allows = TRUE
    /\ CrawlIdle
    /\ doc \in Pages
    /\ parsed = NotParsed
    /\ ingested = <<>>
    /\ calls = <<>>
    /\ LinksIdle
    /\ ConnIdle
    /\ StdIdle
    /\ CleanupIdle
    /\ BoundaryIdle

\* results = parse_survey(html)
ParseSurvey ==
    /\ proc = "parse"
    /\ ~parsed.called
    /\ parsed' = [called |-> TRUE, raised |-> parse_survey(doc).raised,
                  results |-> parse_survey(doc).results]
    /\ UNCHANGED << proc, crawl, doc, ingested, calls, linkVars, connVars, stdVars,
                    cleanupVars, boundaryVars >>

NextParse == ParseSurvey

SpecParse == InitParse /\ [][NextParse]_vars

(***************************************************************************)
(* get_max_pages on its own: a page is known by the hrefs of its a tags.   *)
(***************************************************************************)
MaxLinks == 2

\* hrefs an a tag of a survey page can carry
Hrefs == {"?page=2", "/survey/?page=3", "?page=10", "?page=0", "?page=",
          "/result/1", "?q=a&page=9", "?page=2&x=?page=7", "?page=x&y=?page=4",
          "?page=007"}

InitLinks ==
    /\ proc = "links"
    /\ site_allows = TRUE
    /\ CrawlIdle
    /\ doc = NoDoc /\ parsed = NotParsed /\ ingested = <<>> /\ calls = <<>>
    /\ anchors \in SeqsUpTo(Hrefs, MaxLinks)
    /\ max_page = NoMaxPage
    /\ ConnIdle
    /\ StdIdle
    /\ CleanupIdle
    /\ BoundaryIdle

\* total_pages = get_max_pages(html)
GetMaxPages ==
    /\ proc = "links"
    /\ ~max_page.called
    /\ max_page' = [called |-> TRUE, value |-> get_max_pages(anchors)]
    /\ UNCHANGED << proc, crawl, doc, parsed, ingested, calls, anchors, connVars,
                    stdVars, cleanupVars, boundaryVars >>

NextLinks == GetMaxPages

SpecLinks == InitLinks /\ [][NextLinks]_vars

(***************************************************************************)
(* Two requests to /pull-data at once, each pull_data on its own           *)
(* connection and transaction (psycopg.connect per request, autocommit     *)
(* off).  A session is what its connection has done: the urls of the rows  *)
(* its crawl still hands to insert_row, the rows it inserted and did not   *)
(* commit yet, and the urls insert_row returned True for.  The table is    *)
(* PostgreSQL's: url is UNIQUE, so an INSERT of a url that an open         *)
(* transaction inserted waits for that transaction to end; two sessions    *)
(* waiting for each other are a deadlock, which the server ends by failing *)
(* one statement.                                                          *)
(***************************************************************************)
\* urls a crawl hands to insert_row in one request
MaxTodo == 2
Conns == {1, 2}
Other(c) == 3 - c
\* "" is the url of a record without a result link
SessionUrls == {"", "u1", "u2"}

StoredRow(url, by) == [url |-> url, by |-> by]
Open(session) == session.state \in {"run", "blocked"}

\* the table without its constraint
NoConstraint(url, rows) == FALSE

\* url TEXT UNIQUE: a row of rows holds the url
UniqueViolation(url, rows) == \E i \in DOMAIN rows : rows[i].url = url

InitPulls ==
    /\ proc = "pulls"
    /\ site_allows = TRUE
    /\ CrawlIdle
    /\ doc = NoDoc /\ parsed = NotParsed /\ ingested = <<>> /\ calls = <<>>
    /\ LinksIdle
    /\ db_rows \in {<<>>, << StoredRow("u1", 0) >>}
    /\ \E first, second \in SeqsUpTo(SessionUrls, MaxTodo) :
          sessions = [c \in Conns |->
                         [state |-> "run",
                          todo |-> IF c = 1 THEN first ELSE second,
                          given |-> IF c = 1 THEN first ELSE second,
                          pending |-> <<>>, counted |-> <<>>, waited |-> FALSE]]
    /\ StdIdle
    /\ CleanupIdle
    /\ BoundaryIdle

PullsFrame ==
    UNCHANGED << proc, crawl, doc, parsed, ingested, calls, linkVars, stdVars,
                 cleanupVars, boundaryVars >>

\* the INSERT took effect: rowcount 1, insert_row returns True
Inserted(session, url, c) ==
    [session EXCEPT !.state = "run", !.todo = Tail(session.todo),
                    !.pending = Append(session.pending, StoredRow(url, c)),
                    !.counted = Append(session.counted, url)]

\* ON CONFLICT (url) DO NOTHING: rowcount 0, insert_row returns False
Skipped(session) == [session EXCEPT !.state = "run", !.todo = Tail(session.todo)]

\* a turn of "for row in rows: if insert_row(cur, row): total_inserted += 1"
\* on connection c, up to where the statement returns or starts to wait
PullInsert(c) ==
    /\ proc = "pulls"
    /\ sessions[c].state = "run"
    /\ sessions[c].todo # <<>>
    /\ LET url == Head(sessions[c].todo)
           mine == sessions[c]
           theirs == sessions[Other(c)]
       IN  sessions' =
             [sessions EXCEPT ![c] =
                 IF UniqueViolation(url, db_rows \o mine.pending)
                 THEN Skipped(mine)
                 ELSE IF Open(theirs) /\ UniqueViolation(url, theirs.pending)
                 THEN [mine EXCEPT !.state = "blocked", !.waited = TRUE]
                 ELSE Inserted(mine, url, c)]
    /\ UNCHANGED db_rows
    /\ PullsFrame

\* the transaction the statement of c waits for ended: committed, the row
\* conflicts; rolled back, the INSERT goes through
PullUnblock(c) ==
    /\ proc = "pulls"
    /\ sessions[c].state = "blocked"
    /\ ~Open(sessions[Other(c)])
    /\ LET url == Head(sessions[c].todo)
       IN  sessions' = [sessions EXCEPT ![c] =
                           IF UniqueViolation(url, db_rows)
                           THEN Skipped(sessions[c])
                           ELSE Inserted(sessions[c], url, c)]
    /\ UNCHANGED db_rows
    /\ PullsFrame

\* "except psycopg.Error" and "except (URLError, HTTPError)": conn.rollback(),
\* conn.close(), 500
RolledBack(session) == [session EXCEPT !.state = "rolledback", !.pending = <<>>]

\* both statements wait for each other: the server fails the statement of c
\* with DeadlockDetected, a psycopg.Error
PullDeadlock(c) ==
    /\ proc = "pulls"
    /\ sessions[c].state = "blocked"
    /\ sessions[Other(c)].state = "blocked"
    /\ sessions' = [sessions EXCEPT ![c] = RolledBack(sessions[c])]
    /\ UNCHANGED db_rows
    /\ PullsFrame

\* a fetch of c raises URLError, or a statement a psycopg.Error
PullFail(c) ==
    /\ proc = "pulls"
    /\ sessions[c].state = "run"
    /\ sessions' = [sessions EXCEPT ![c] = RolledBack(sessions[c])]
    /\ UNCHANGED db_rows
    /\ PullsFrame

\* the loop of c ends (cap, empty page, caught up) with rows left unvisited
PullBreak(c) ==
    /\ proc = "pulls"
    /\ sessions[c].state = "run"
    /\ sessions[c].todo # <<>>
    /\ sessions' = [sessions EXCEPT ![c].todo = <<>>]
    /\ UNCHANGED db_rows
    /\ PullsFrame

\* the cleanup passes, which add no row and change no url, then
\* conn.commit(); conn.close(): the rows of c become the table's
PullsCommit(c) ==
    /\ proc = "pulls"
    /\ sessions[c].state = "run"
    /\ sessions[c].todo = <<>>
    /\ db_rows' = db_rows \o sessions[c].pending
    /\ sessions' = [sessions EXCEPT ![c].state = "committed", ![c].pending = <<>>]
    /\ PullsFrame

NextPulls ==
    \E c \in Conns :
        \/ PullInsert(c)
        \/ PullUnblock(c)
        \/ PullDeadlock(c)
        \/ PullFail(c)
        \/ PullBreak(c)
        \/ PullsCommit(c)

SpecPulls == InitPulls /\ [][NextPulls]_vars

(***************************************************************************)
(* One page through pull_data: rows = parse_survey(html), the comments of  *)
(* each row joined, then insert_row for each row on the cursor of the      *)
(* request.  The page is a five-cell row, whose date and links vary,       *)
(* followed by a detail row of score fragments or by a second five-cell    *)
(* row.                                                                    *)
(***************************************************************************)
IngestMain(school, date, hrefs) ==
    << Cell(<< school >>, <<>>), Cell(<< "Physics", "PhD" >>, <<>>),
       Cell(<< date >>, <<>>), Cell(<< "Accepted" >>, <<>>),
       Cell(<< "View" >>, hrefs) >>

DateTexts ==
    {"January 15, 2026", "february 29, 2024", "February 30, 2026", "Jan 1, 2026", ""}
Links == {<< "/result/1" >>, << "https://www.thegradcafe.com/result/2" >>, << "/survey/" >>}
ScoreFragments ==
    {"GPA 3.90", "gpa 3.90", "GRE 320", "GRE V 160", "GRE Verbal 160",
     "GRE AW 4.5", "gre aw 4.5", "GRE AW", "GRE AW n/a", "GRE Q 170"}

IngestPages ==
    {[table |-> TRUE, tbody |-> TRUE, rows |-> << IngestMain("MIT", date, hrefs) >> \o details] :
        date \in DateTexts, hrefs \in Links,
        details \in {<<>>} \cup {<< DetailRow(strings) >> :
                                    strings \in SeqsUpTo(ScoreFragments, MaxParts) \ {<<>>}}}
    \cup
    {[table |-> TRUE, tbody |-> TRUE,
      rows |-> << IngestMain("MIT", "January 15, 2026", first),
                  IngestMain("UCLA", "January 15, 2026", second) >>] :
        first \in Links, second \in Links}

\* row["comments"] = " ".join(row["comments"]).strip()
JoinComments(row) == SetKey(row, "comments", Strip(Join(row["comments"], " ")))

\* the row an earlier request stored from the result link /result/1
Earlier ==
    Params(JoinComments(parse_main_row(IngestMain("MIT", "January 15, 2026",
                                                  << "/result/1" >>))))

InitIngest ==
    /\ proc = "ingest"
    /\ site_allows = TRUE
    /\ CrawlIdle
    /\ doc \in IngestPages
    /\ parsed = NotParsed
    /\ ingested \in {<<>>, << Earlier >>}
    /\ calls = <<>>
    /\ LinksIdle
    /\ ConnIdle
    /\ StdIdle
    /\ CleanupIdle
    /\ BoundaryIdle

\* rows = _parse(html), and the loop that joins the comments of each row
PullRows ==
    /\ proc = "ingest"
    /\ ~parsed.called
    /\ LET rows == parse_survey(doc)
       IN  parsed' = [called |-> TRUE, raised |-> rows.raised,
                      results |-> [i \in DOMAIN rows.results |->
                                      JoinComments(rows.results[i])]]
    /\ UNCHANGED << proc, crawl, doc, ingested, calls, linkVars, connVars, stdVars,
                    cleanupVars, boundaryVars >>

\* one turn of "for row in rows: ... insert_row(cur, row)"
InsertRow ==
    /\ proc = "ingest"
    /\ parsed.called
    /\ Len(calls) < Len(parsed.results)
    /\ LET row == parsed.results[Len(calls) + 1]
           params == Params(row)
           done == Execute(ingested, params)
       IN  /\ ingested' = done.table
           /\ calls' = Append(calls, [row |-> row, before |-> ingested,
                                      params |-> params, ret |-> done.inserted])
    /\ UNCHANGED << proc, crawl, doc, parsed, linkVars, connVars, stdVars, cleanupVars,
                    boundaryVars >>

NextIngest == PullRows \/ InsertRow

SpecIngest == InitIngest /\ [][NextIngest]_vars

(***************************************************************************)
(* llm_standardizer on its own: standardize, or _post_normalize_university *)
(* directly, called once on a string, a completion and canonical lists     *)
(* drawn from the ones below.                                              *)
(***************************************************************************)
\* lines of canon_universities.txt
MaxCanon == 2

StdTexts ==
    {"", "MIT", "Physics, MIT", "Computer Science, UC Berkeley", "Berkeley",
     "University of California Davis", "San Diego State University", "Biology at UCLA",
     "Info Studies, McG", "University of California"}

Completions ==
    {Completion("load_raises", EmptyDict), Completion("call_raises", EmptyDict),
     Completion("invalid", EmptyDict), Completion("not_object", EmptyDict),
     Completion("object", EmptyDict),
     Completion("object", "standardized_program" :> "Comp Sci"
                          @@ "standardized_university" :> "Stanford University")}

CanonPool ==
    << "Massachusetts Inst. of Technology", "Massachusetts Institute of Technology",
       "University of California", "University of California, Berkeley" >>

RECURSIVE SubSeqs(_, _)
\* the lists of at most n of the lines of pool, in the order of the pool
SubSeqs(pool, n) ==
    IF pool = <<>> \/ n = 0 THEN {<<>>}
    ELSE SubSeqs(Tail(pool), n)
            \cup {<< Head(pool) >> \o t : t \in SubSeqs(Tail(pool), n - 1)}

InitStd ==
    /\ proc = "standardize"
    /\ site_allows = TRUE
    /\ CrawlIdle
    /\ ParseIdle
    /\ std_text \in StdTexts
    /\ llm_out \in Completions
    /\ CANON_UNIS \in SubSeqs(CanonPool, MaxCanon)
    \* both files are there or neither is
    /\ CANON_PROGS = IF CANON_UNIS = <<>> THEN <<>> ELSE << "Computer Science", "Physics" >>
    /\ std_result = NoStdCall
    /\ CleanupIdle
    /\ BoundaryIdle

\* standardize(std_text)
Standardize ==
    /\ proc = "standardize"
    /\ std_result.op = ""
    /\ LET r == standardize(std_text, llm_out, CANON_UNIS, CANON_PROGS)
       IN  std_result' = [op |-> "standardize", raised |-> r.raised,
                          result |-> r.result, uni |-> ""]
    /\ UNCHANGED << proc, crawl, parseVars, cleanupVars, boundaryVars,
                    std_text, llm_out, CANON_UNIS, CANON_PROGS >>

\* _post_normalize_university(std_text)
PostNormalizeUniversity ==
    /\ proc = "standardize"
    /\ std_result.op = ""
    /\ std_result' = [op |-> "_post_normalize_university", raised |-> FALSE,
                      result |-> EmptyDict,
                      uni |-> post_normalize_university(std_text, CANON_UNIS)]
    /\ UNCHANGED << proc, crawl, parseVars, cleanupVars, boundaryVars,
                    std_text, llm_out, CANON_UNIS, CANON_PROGS >>

NextStd == Standardize \/ PostNormalizeUniversity

SpecStd == InitStd /\ [][NextStd]_vars

(***************************************************************************)
(* cleanup_data.fix_gre_aw on its own: its two statements run on an        *)
(* autocommit connection (cleanup_data.main), so another connection's      *)
(* write can fall before, between and after them.                         *)
(***************************************************************************)
\* rows in the table when the first run starts
MaxStoreRows == 2
\* calls of the cleanup passes, one after the other
MaxRuns == 2
\* writes of other connections
MaxWrites == 1

AwValues == {Null, -100, 0, 100 * GreAwMax, 100 * GreAwMax + 50}

RECURSIVE StoresOf(_)
\* the tables of n rows, p_id the serial key
StoresOf(n) ==
    IF n = 0 THEN {<<>>}
    ELSE {Append(t, [p_id |-> n, gre_aw |-> v]) : t \in StoresOf(n - 1), v \in AwValues}
Stores == UNION {StoresOf(n) : n \in 0..MaxStoreRows}

InitCleanup ==
    /\ proc = "cleanup"
    /\ site_allows = TRUE
    /\ CrawlIdle
    /\ ParseIdle
    /\ StdIdle
    /\ store \in Stores
    /\ fix_pc = "idle"
    /\ fix_count = 0
    /\ runs = <<>>
    /\ writes = 0
    /\ uc_pc = "idle"
    /\ uc_rows = <<>>
    /\ uc_updated = 0
    /\ uc_runs = <<>>
    /\ BoundaryIdle

\* cur.execute(count_query); count = cur.fetchone()[0]
FixCount ==
    /\ proc \in {"cleanup", "maintain"}
    /\ fix_pc = "idle"
    /\ uc_pc = "idle"
    /\ Len(runs) + Len(uc_runs) < MaxRuns
    /\ fix_count' = CountAbove(store)
    /\ fix_pc' = "counted"
    /\ runs' = Append(runs, [returned |-> FALSE, ret |-> 0, nulled |-> 0,
                             before |-> store, after |-> store,
                             writes_before |-> writes, writes_after |-> writes])
    /\ UNCHANGED << proc, crawl, parseVars, stdVars, boundaryVars, store, writes,
                    ucLocals >>

\* "if count > 0: cur.execute(fix_query)"; return count
FixUpdate ==
    /\ proc \in {"cleanup", "maintain"}
    /\ fix_pc = "counted"
    /\ store' = IF fix_count > 0 THEN NullAbove(store) ELSE store
    /\ fix_pc' = "idle"
    /\ runs' = [runs EXCEPT ![Len(runs)] =
                   [@ EXCEPT !.returned = TRUE,
                             !.ret = fix_count,
                             !.nulled = Cardinality({i \in DOMAIN store :
                                                        store'[i] # store[i]}),
                             !.after = store',
                             !.writes_after = writes]]
    /\ UNCHANGED << proc, crawl, parseVars, stdVars, boundaryVars, fix_count, writes,
                    ucLocals >>

\* another connection commits the insert of a row (new data)
OtherWrite ==
    /\ proc = "cleanup"
    /\ writes < MaxWrites
    /\ \E v \in AwValues :
          store' = Append(store, [p_id |-> Len(store) + 1, gre_aw |-> v])
    /\ writes' = writes + 1
    /\ UNCHANGED << proc, crawl, parseVars, stdVars, boundaryVars,
                    fix_pc, fix_count, runs, ucLocals >>

NextCleanup == FixCount \/ FixUpdate \/ OtherWrite

SpecCleanup == InitCleanup /\ [][NextCleanup]_vars

(***************************************************************************)
(* The two passes of cleanup_data on a table that load_data filled: each   *)
(* pass is called on the autocommit connection of cleanup_data.main, one   *)
(* call after the other, while app.insert_row writes from another          *)
(* connection.  A row is known by its position in the table, which stands  *)
(* for its p_id (SERIAL, and no row is ever deleted).                      *)
(***************************************************************************)
\* the url of the row load_data stored at position i
LoadedUrl(i) == "r" \o SubSeq("123456789", i, i)

RECURSIVE LoadedTables(_)
\* the tables of n loaded rows
LoadedTables(n) ==
    IF n = 0 THEN {<<>>}
    ELSE {Append(t, [url |-> LoadedUrl(n), program |-> r.program,
                     gre_aw |-> r.gre_aw, uni |-> r.uni]) :
             t \in LoadedTables(n - 1), r \in Loaded}

InitMaintain ==
    /\ proc = "maintain"
    /\ site_allows = TRUE
    /\ CrawlIdle
    /\ ParseIdle
    /\ StdIdle
    /\ store \in UNION {LoadedTables(n) : n \in 0..MaxStoreRows}
    /\ fix_pc = "idle"
    /\ fix_count = 0
    /\ runs = <<>>
    /\ writes = 0
    /\ uc_pc = "idle"
    /\ uc_rows = <<>>
    /\ uc_updated = 0
    /\ uc_runs = <<>>
    /\ BoundaryIdle

RECURSIVE Selected(_, _)
\* cur.execute(select_query); rows = cur.fetchall(): (p_id, program,
\* llm_generated_university) of the rows from position i on that the WHERE keeps
Selected(table, i) ==
    IF i > Len(table) THEN <<>>
    ELSE IF UcLikeOf[table[i].uni]
         THEN << [p_id |-> i, program |-> table[i].program,
                  current_uni |-> table[i].uni] >> \o Selected(table, i + 1)
         ELSE Selected(table, i + 1)

\* fix_uc_universities up to "updated = 0"
UcSelect ==
    /\ proc = "maintain"
    /\ uc_pc = "idle"
    /\ fix_pc = "idle"
    /\ Len(runs) + Len(uc_runs) < MaxRuns
    /\ uc_rows' = Selected(store, 1)
    /\ uc_updated' = 0
    /\ uc_pc' = "loop"
    /\ uc_runs' = Append(uc_runs, [returned |-> FALSE, ret |-> 0,
                                   before |-> store, after |-> store,
                                   writes_before |-> writes, writes_after |-> writes])
    /\ UNCHANGED << proc, crawl, parseVars, stdVars, boundaryVars,
                    store, fix_pc, fix_count, runs, writes >>

\* one turn of "for p_id, program, current_uni in rows"
UcRow ==
    /\ proc = "maintain"
    /\ uc_pc = "loop"
    /\ uc_rows # <<>>
    /\ LET row == Head(uc_rows)
           new_uni == NewUni(row.program, row.current_uni)
       IN  IF ShouldUpdate(new_uni, row.current_uni)
           THEN /\ store' = [store EXCEPT ![row.p_id].uni = new_uni]
                /\ uc_updated' = uc_updated + 1
           ELSE UNCHANGED << store, uc_updated >>
    /\ uc_rows' = Tail(uc_rows)
    /\ UNCHANGED << proc, crawl, parseVars, stdVars, boundaryVars,
                    fix_pc, fix_count, runs, writes, uc_pc, uc_runs >>

\* the loop is over: return updated
UcReturn ==
    /\ proc = "maintain"
    /\ uc_pc = "loop"
    /\ uc_rows = <<>>
    /\ uc_pc' = "idle"
    /\ uc_runs' = [uc_runs EXCEPT ![Len(uc_runs)] =
                      [@ EXCEPT !.returned = TRUE,
                                !.ret = uc_updated,
                                !.after = store,
                                !.writes_after = writes]]
    /\ UNCHANGED << proc, crawl, parseVars, stdVars, boundaryVars,
                    store, fix_pc, fix_count, runs, writes, uc_rows, uc_updated >>

\* app.insert_row, committed by another connection
InsertOther ==
    /\ proc = "maintain"
    /\ writes < MaxWrites
    /\ \E record \in Records : store' = insert_row(store, record).table
    /\ writes' = writes + 1
    /\ UNCHANGED << proc, crawl, parseVars, stdVars, boundaryVars,
                    fix_pc, fix_count, runs, ucLocals >>

NextMaintain == FixCount \/ FixUpdate \/ UcSelect \/ UcRow \/ UcReturn \/ InsertOther

SpecMaintain == InitMaintain /\ [][NextMaintain]_vars

(***************************************************************************)
(* The boundary of pull_data: dashboard pages open in browsers, each with  *)
(* the busy flag of dashboard.js, and the Flask server (app.run, threaded) *)
(* that runs one pull_data per POST /pull-data it receives.  A crawl is    *)
(* known here by its start and its return only.                            *)
(***************************************************************************)
\* dashboard pages open
MaxTabs == 2
\* requests under way at a time
MaxRequests == 3
\* clicks on a busy page that are counted
MaxIgnored == 1

Tabs == 1..MaxTabs
Request(tab) == [tab |-> tab, at |-> "sent", status |-> 0]
Without(seq, i) == SubSeq(seq, 1, i - 1) \o SubSeq(seq, i + 1, Len(seq))
Crawling == {i \in DOMAIN requests : requests[i].at = "crawling"}

InitBoundary ==
    /\ proc = "dashboard"
    /\ site_allows = TRUE
    /\ CrawlIdle
    /\ ParseIdle
    /\ StdIdle
    /\ CleanupIdle
    /\ isPulling = [t \in Tabs |-> FALSE]
    /\ requests = <<>>
    /\ shown = [t \in Tabs |-> 0]
    /\ ignored = [t \in Tabs |-> 0]
    /\ refused = 0

\* pullData() of dashboard.js: a click on Pull Data; while isPulling the button
\* is disabled and the click does nothing
PullData(t) ==
    /\ proc = "dashboard"
    /\ IF isPulling[t]
       THEN /\ ignored[t] < MaxIgnored
            /\ ignored' = [ignored EXCEPT ![t] = @ + 1]
            /\ UNCHANGED << isPulling, requests >>
       ELSE /\ Len(requests) < MaxRequests
            /\ isPulling' = [isPulling EXCEPT ![t] = TRUE]
            /\ requests' = Append(requests, Request(t))
            /\ UNCHANGED ignored
    /\ UNCHANGED << proc, crawl, parseVars, stdVars, cleanupVars, shown, refused >>

\* a pull_data that answers 409 while another crawl runs
RefusedWhenBusy(crawling) == crawling > 0

\* pull_data looks at no other invocation before it starts its crawl
PullRefused(crawling) == FALSE

\* the server hands a request to pull_data, in a thread of its own
HandlerStart(i) ==
    /\ proc = "dashboard"
    /\ requests[i].at = "sent"
    /\ IF PullRefused(Cardinality(Crawling))
       THEN /\ requests' = [requests EXCEPT ![i].at = "answered", ![i].status = 409]
            /\ refused' = refused + 1
       ELSE /\ requests' = [requests EXCEPT ![i].at = "crawling"]
            /\ UNCHANGED refused
    /\ UNCHANGED << proc, crawl, parseVars, stdVars, cleanupVars,
                    isPulling, shown, ignored >>

\* pull_data returns its response: 200, or 500 on one of its error paths
HandlerReturn(i) ==
    /\ proc = "dashboard"
    /\ requests[i].at = "crawling"
    /\ \E status \in {200, 500} :
          requests' = [requests EXCEPT ![i].at = "answered", ![i].status = status]
    /\ UNCHANGED << proc, crawl, parseVars, stdVars, cleanupVars,
                    isPulling, shown, ignored, refused >>

\* the callback of pullData(): the response is in, the page is free again
PullDone(i) ==
    /\ proc = "dashboard"
    /\ requests[i].at = "answered"
    /\ isPulling' = [isPulling EXCEPT ![requests[i].tab] = FALSE]
    /\ shown' = [shown EXCEPT ![requests[i].tab] = requests[i].status]
    /\ requests' = Without(requests, i)
    /\ UNCHANGED << proc, crawl, parseVars, stdVars, cleanupVars, ignored, refused >>

NextBoundary ==
    \/ \E t \in Tabs : PullData(t)
    \/ \E i \in DOMAIN requests : HandlerStart(i)
    \/ \E i \in DOMAIN requests : HandlerReturn(i)
    \/ \E i \in DOMAIN requests : PullDone(i)

SpecBoundary == InitBoundary /\ [][NextBoundary]_vars

(***************************************************************************)
(* Reading the trace of one invocation.                                    *)
(***************************************************************************)
Fetches == {k \in DOMAIN trace : trace[k].ev = "fetch"}
FetchedPages == {trace[k].page : k \in Fetches}
Has(ev, page) == \E k \in DOMAIN trace : trace[k].ev = ev /\ trace[k].page = page

RECURSIVE ParsedRows(_)
\* the number of records the parsed pages of a trace yielded
ParsedRows(tr) ==
    IF tr = <<>> THEN 0
    ELSE (IF Head(tr).ev = "parse" THEN Head(tr).n ELSE 0) + ParsedRows(Tail(tr))

RowsWithUrl(table, u) == {i \in DOMAIN table : table[i].url = u}
NoDuplicateUrl(table) ==
    \A i, j \in DOMAIN table : table[i].url = table[j].url => i = j

(***************************************************************************)
(* C1: No two stored rows have the same url: each url maps to at most one  *)
(* persisted applicant, in the committed table and in the table as the     *)
(* open connection sees it, after any sequence of insert_row calls,        *)
(* pull_data invocations and cleanup passes.                               *)
(***************************************************************************)
C1_UniqueUrl == NoDuplicateUrl(applicants) /\ NoDuplicateUrl(txn)

\* a stored url was offered again while two rows are stored
C1_Witness ==
    /\ Len(applicants) = 2
    /\ Len(txn) = 2
    /\ pc = "insert" /\ last.called /\ ~last.ret

(***************************************************************************)
(* C2: insert_row returns True exactly when no row with the record's url   *)
(* was stored before the call; when the url is already stored it returns   *)
(* False and leaves the table, every field of the existing row included,   *)
(* unchanged, even if the new record's other fields differ.                *)
(***************************************************************************)
C2_InsertOrSkip ==
    (pc = "insert" /\ last.called) =>
        /\ last.ret = (last.record.url \notin UrlsOf(last.before))
        /\ ~last.ret => txn = last.before
        /\ last.ret => /\ Len(txn) = Len(last.before) + 1
                       /\ \A i \in DOMAIN last.before : txn[i] = last.before[i]
                       /\ txn[Len(txn)].url = last.record.url

\* a record whose url is stored with another score was offered and skipped
C2_Witness ==
    /\ pc = "insert" /\ last.called /\ ~last.ret
    /\ \E i \in DOMAIN txn :
          /\ txn[i].url = last.record.url
          /\ txn[i].gre_aw # GreAwOf[last.record.aw]

(***************************************************************************)
(* C3: When a pull_data invocation that follows an earlier one returns its *)
(* counts, the store holds exactly one row for each url that was stored    *)
(* before it or appeared on a page it processed, and its inserted count is *)
(* the number of its urls that were not stored when it started.            *)
(***************************************************************************)
C3_Converges ==
    (proc = "app" /\ pc = "done" /\ response.status = 200) =>
        /\ \A u \in seen \cup UrlsOf(started) :
              Cardinality(RowsWithUrl(applicants, u)) = 1
        /\ total_inserted = Cardinality(seen \ UrlsOf(started))
        /\ Len(applicants) = Len(started) + total_inserted

\* a second invocation over pages that overlap what is stored and add to it
C3_Witness ==
    /\ proc = "app" /\ pc = "done" /\ response.status = 200
    /\ started # <<>>
    /\ seen \cap UrlsOf(started) # {}
    /\ seen \ UrlsOf(started) # {}
    /\ total_scraped > total_inserted

(***************************************************************************)
(* C4: In pull_data, once a page N has yielded records none of which was   *)
(* inserted (all urls already stored), pages_fetched is N and no page      *)
(* after N is fetched in this invocation.                                  *)
(***************************************************************************)
C4_CaughtUpStops ==
    \A k \in DOMAIN trace :
        (proc = "app" /\ trace[k].ev = "inserted" /\ trace[k].n = 0) =>
            /\ pages_fetched = trace[k].page
            /\ \A p \in FetchedPages : p <= trace[k].page
            /\ k = Len(trace) \/ trace[k + 1].ev = "cleanup"

\* pages 1 inserted, page 2 held only stored urls, page 3 existed under the cap
C4_Witness ==
    /\ proc = "app" /\ pc = "done" /\ response.status = 200
    /\ pages_to_check = 3
    /\ pages_fetched = 2
    /\ total_inserted > 0
    /\ \E k \in DOMAIN trace :
          trace[k].ev = "inserted" /\ trace[k].page = 2 /\ trace[k].n = 0

(***************************************************************************)
(* C5 (as stated): In one crawl invocation, pull_data and scrape_data, the *)
(* number of page fetches never exceeds the page cap, and no page is       *)
(* fetched after a fetched page has parsed to zero records.                *)
(***************************************************************************)
WithinCap ==
    \/ proc = "scrape" /\ max_pages = 0
    \/ Cardinality(Fetches) <= max_pages

NoFetchAfterEmptyPage ==
    \A i, j \in DOMAIN trace :
        (i < j /\ trace[i].ev = "parse" /\ trace[i].n = 0) => trace[j].ev # "fetch"

C5_Original == WithinCap /\ NoFetchAfterEmptyPage

(***************************************************************************)
(* C5 (amended): In one crawl invocation the number of page fetches never  *)
(* exceeds the page cap, when one is given; in pull_data no page is        *)
(* fetched after a fetched page has parsed to zero records (scrape_data    *)
(* goes on through pages_to_fetch whatever a page parses to).              *)
(***************************************************************************)
C5_CapAndEmptyStop ==
    /\ WithinCap
    /\ proc = "app" => NoFetchAfterEmptyPage

\* pull_data stopped at an empty page 2 although page 3 was within the cap
C5_Witness ==
    /\ proc = "app" /\ pc = "done" /\ response.status = 200
    /\ pages_to_check = 3
    /\ \E k \in DOMAIN trace :
          trace[k].ev = "parse" /\ trace[k].page = 2 /\ trace[k].n = 0
    /\ Cardinality(Fetches) = 2

(***************************************************************************)
(* C6 (as stated): Unless the policy check is bypassed, a crawl,           *)
(* scrape_data or pull_data, whose base_url the robots policy disallows    *)
(* performs no page fetch, no insert and no cleanup and returns an empty   *)
(* result.                                                                 *)
(***************************************************************************)
C6_Original ==
    (~ignore_robots /\ ~site_allows) =>
        /\ Fetches = {}
        /\ txn = applicants
        /\ ~Has("cleanup", 0)
        /\ all_results = <<>>

(***************************************************************************)
(* C6 (amended): Unless the policy check is bypassed, scrape_data whose    *)
(* base_url the robots policy disallows performs no page fetch and no      *)
(* sleep and returns the empty list (pull_data consults no policy).        *)
(***************************************************************************)
C6_ScrapeDenied ==
    (proc = "scrape" /\ ~ignore_robots /\ ~site_allows) =>
        /\ Fetches = {}
        /\ \A k \in DOMAIN trace : trace[k].ev = "check"
        /\ all_results = <<>>
        /\ outcome # "raised"
        /\ pc \in {"idle", "s_robots", "done"}
        /\ applicants = <<>> /\ txn = <<>>

\* scrape_data returned after the policy denied base_url
C6_Witness ==
    /\ proc = "scrape" /\ ~ignore_robots /\ ~site_allows
    /\ pc = "done" /\ outcome = "returned"
    /\ Has("check", 1)

(***************************************************************************)
(* C7 (as stated): When the policy check is not bypassed, the delay        *)
(* scrape_data sleeps between page fetches is the larger of the policy's   *)
(* crawl delay and the caller's delay.                                     *)
(***************************************************************************)
C7_Original ==
    (proc = "scrape" /\ ~ignore_robots) =>
        \A k \in DOMAIN trace :
            trace[k].ev = "sleep" => trace[k].n = StricterDelay(crawl_delay, req_delay)

(***************************************************************************)
(* C7 (amended): When the policy check is not bypassed, the delay          *)
(* scrape_data sleeps between page fetches is the policy's crawl delay     *)
(* whenever robots.txt states one, smaller than the caller's or not, and   *)
(* the caller's delay otherwise; when bypassed it is the caller's delay.   *)
(***************************************************************************)
C7_PolicyDelayReplaces ==
    proc = "scrape" =>
        \A k \in DOMAIN trace :
            trace[k].ev = "sleep" =>
                trace[k].n = IF ~ignore_robots /\ crawl_delay # NoDelay
                             THEN crawl_delay ELSE req_delay

\* a sleep under a policy delay smaller than the caller's
C7_Witness ==
    /\ proc = "scrape" /\ ~ignore_robots
    /\ crawl_delay # NoDelay /\ crawl_delay < req_delay
    /\ \E k \in DOMAIN trace : trace[k].ev = "sleep"

\* after event k, which ended the turn of page p, scrape_data goes on with
\* page p + 1: it sleeps for it, or is about to, or p was the last page
GoesOn(k, p) ==
    IF k < Len(trace)
    THEN trace[k + 1] = Event("sleep", p + 1, delay)
    ELSE /\ page_num = p + 1
         /\ outcome # "raised"
         /\ pc = "s_loop" \/ (pc = "done" /\ p + 1 > pages_to_fetch)

(***************************************************************************)
(* C8: In scrape_data, for every page p >= 2 the policy disallows, page p  *)
(* is not fetched and the crawl goes on to page p + 1; the results         *)
(* collected so far are kept (all_results holds every parsed record).      *)
(***************************************************************************)
C8_DisallowedPageSkipped ==
    proc = "scrape" =>
        \A k \in DOMAIN trace :
            (trace[k].ev = "check" /\ trace[k].page >= 2 /\ trace[k].n = 0) =>
                /\ ~Has("fetch", trace[k].page)
                /\ k < Len(trace) /\ trace[k + 1].ev = "skip"
                /\ GoesOn(k + 1, trace[k].page)
                /\ Len(all_results) = ParsedRows(trace)

\* page 2 was disallowed, page 3 was fetched, both parsed pages are kept
C8_Witness ==
    /\ proc = "scrape"
    /\ Has("skip", 2) /\ Has("parse", 3)
    /\ Len(all_results) = 2

(***************************************************************************)
(* C9 (as stated): A fetch or parse error on any single page of a crawl,   *)
(* scrape_data or pull_data, is absorbed: the crawl as a whole does not    *)
(* fail.                                                                   *)
(***************************************************************************)
PageErrors == FetchErrors \cup {"URLError"}

C9_Original ==
    (\E k \in DOMAIN trace : trace[k].ev \in PageErrors) =>
        outcome # "raised" /\ response.status # 500

(***************************************************************************)
(* C9 (amended): In scrape_data an OSError or ValueError on a page         *)
(* p >= 2 is absorbed: the page is skipped, the crawl goes on to page      *)
(* p + 1 and the results of earlier pages are kept; an error on page 1 or  *)
(* any other exception leaves scrape_data.  In pull_data an error on any   *)
(* page ends the crawl with status 500 and nothing of it stored.           *)
(***************************************************************************)
C9_PageErrors ==
    \A k \in DOMAIN trace :
        /\ (proc = "scrape" /\ trace[k].ev \in {"OSError", "ValueError"}
                            /\ trace[k].page >= 2) =>
              /\ GoesOn(k, trace[k].page)
              /\ Len(all_results) = ParsedRows(trace)
        /\ (proc = "scrape" /\ trace[k].ev \in FetchErrors
                            /\ (trace[k].page = 1 \/ trace[k].ev = "HTTPException")) =>
              outcome = "raised" /\ pc = "done"
        /\ (proc = "app" /\ trace[k].ev \in PageErrors) =>
              /\ pc = "done" /\ response.status = 500
              /\ applicants = started /\ txn = started

\* page 2 raised OSError, page 3 was still fetched, both parsed pages are kept
C9_Witness ==
    /\ proc = "scrape"
    /\ Has("OSError", 2) /\ Has("parse", 3)
    /\ Len(all_results) = 2
    /\ outcome = "returned"

(***************************************************************************)
(* C10 (as stated): If a crawl fails partway, after k rows were inserted   *)
(* in this invocation, the k rows already inserted remain stored.          *)
(***************************************************************************)
C10_Original ==
    (proc = "app" /\ pc = "done" /\ response.status = 500) =>
        seen \subseteq UrlsOf(applicants)

(***************************************************************************)
(* C10 (amended): pull_data writes on one connection and commits once, at  *)
(* the end of a successful invocation: until then, and if the crawl fails  *)
(* partway after k rows were inserted, the committed table is exactly what *)
(* it was when the invocation started; the k rows are rolled back.         *)
(***************************************************************************)
C10_FailureRollsBack ==
    proc = "app" =>
        /\ (pc # "done" \/ response.status = 500) => applicants = started
        /\ (pc = "done" /\ response.status = 500) => txn = started

\* a crawl failed after two rows had been inserted
C10_Witness ==
    /\ proc = "app" /\ pc = "done" /\ response.status = 500
    /\ total_inserted = 2
    /\ applicants = <<>>

(***************************************************************************)
(* C11: On every error path of pull_data after the connection is opened    *)
(* (URLError or HTTPError on any page, psycopg.Error during an insert,     *)
(* psycopg.Error during a cleanup pass) the response is HTTP 500 with an   *)
(* error key, rollback is called on the connection and commit is never     *)
(* called; commit is called exactly once, and only on the success path.    *)
(***************************************************************************)
CaughtErrors == {"Network error during scrape", "Database error during scrape",
                 "Cleanup error"}

Calls(method) == {k \in DOMAIN conn_calls : conn_calls[k] = method}

RequestsOf(t) == {i \in DOMAIN requests : requests[i].tab = t}

C13_NoTableNoTbodyEmpty ==
    parsed.called =>
        /\ ~parsed.raised
        /\ (~doc.table \/ ~doc.tbody) => parsed.results = <<>>

\* a table with rows in it but no tbody
C13_Witness ==
    /\ parsed.called /\ ~parsed.raised
    /\ doc.table /\ ~doc.tbody /\ Len(doc.rows) = 2
    /\ parsed.results = <<>>

(***************************************************************************)
(* C14: parse_survey emits one record per five-cell row, in row order.  A  *)
(* one-cell row changes only the record opened by the nearest five-cell    *)
(* row before it and is dropped when there is none; rows with any other    *)
(* number of cells are ignored; the record open at the end of the rows is  *)
(* emitted.  Of two consecutive five-cell rows the first gives a record of *)
(* its own with empty score fields and an empty comment list.              *)
(***************************************************************************)
FiveCellRows(rows) == {i \in DOMAIN rows : Len(rows[i]) = 5}
\* the position among the records of the record row i opens
Rank(rows, i) == Cardinality({j \in FiveCellRows(rows) : j <= i})
\* the rows after row i up to the next five-cell row
Segment(rows, i) ==
    {j \in DOMAIN rows : j > i /\ \A k \in (i + 1)..j : Len(rows[k]) # 5}

RECURSIVE DetailsApplied(_, _, _)
\* the one-cell rows among rows j.. of the segment of row i, applied in order
DetailsApplied(rec, rows, js) ==
    IF js = {} THEN rec
    ELSE LET j == CHOOSE x \in js : \A y \in js : x <= y
         IN  DetailsApplied(IF Len(rows[j]) = 1 THEN parse_detail_row(rows[j][1], rec)
                            ELSE rec,
                            rows, js \ {j})

ScoreKeys == {"GPA", "GRE V", "GRE AW", "GRE Q", "GRE"}

C14_OneRecordPerMainRow ==
    (parsed.called /\ doc.table /\ doc.tbody) =>
        /\ Len(parsed.results) = Cardinality(FiveCellRows(doc.rows))
        /\ \A i \in FiveCellRows(doc.rows) :
              /\ parsed.results[Rank(doc.rows, i)] =
                    DetailsApplied(parse_main_row(doc.rows[i]), doc.rows,
                                   Segment(doc.rows, i))
              /\ (i + 1) \in FiveCellRows(doc.rows) =>
                    /\ parsed.results[Rank(doc.rows, i)] = parse_main_row(doc.rows[i])
                    /\ \A k \in ScoreKeys : parsed.results[Rank(doc.rows, i)][k] = ""
                    /\ parsed.results[Rank(doc.rows, i)]["comments"] = <<>>

\* two five-cell rows in a row, then a detail row: it reaches the second only
C14_Witness ==
    /\ parsed.called
    /\ doc.table /\ doc.tbody
    /\ doc.rows = << MainRowA, MainRowB, DetailRow(<< "GRE AW 4.5" >>) >>
    /\ Len(parsed.results) = 2
    /\ parsed.results[1]["school"] = "MIT" /\ parsed.results[1]["GRE AW"] = ""
    /\ parsed.results[2]["school"] = "UCLA" /\ parsed.results[2]["GRE AW"] = "GRE AW 4.5"

(***************************************************************************)
(* C15: parse_detail_row assigns each fragment to at most one field, the   *)
(* first it matches in the order term, nationality, GPA, GRE V, GRE AW,    *)
(* GRE Q, generic GRE, status; a fragment that starts with "gre v",        *)
(* "gre aw" or "gre q" sets that field only, never the generic GRE field.  *)
(***************************************************************************)
Priority == << "term", "US/International", "GPA", "GRE V", "GRE AW", "GRE Q", "GRE",
               "status" >>

\* the fields, by their place in the order, whose test the fragment meets
Tests(part) ==
    LET l == Lower(part)
        meets(field) ==
            CASE field = "term" -> IsTerm(l)
              [] field = "US/International" -> l \in {"international", "american"}
              [] field = "GPA" -> IsGpa(l)
              [] field = "GRE V" -> StartsWith(l, "gre v")
              [] field = "GRE AW" -> StartsWith(l, "gre aw")
              [] field = "GRE Q" -> StartsWith(l, "gre q")
              [] field = "GRE" -> StartsWith(l, "gre")
              [] field = "status" -> LooksLikeStatus(part)
    IN  {n \in DOMAIN Priority : meets(Priority[n])}

\* the first field of the order the fragment matches, 0 when it matches none
FirstMatch(part) ==
    LET hits == Tests(part)
    IN  IF hits = {} THEN 0 ELSE CHOOSE n \in hits : \A m \in hits : n <= m

\* what the field holds when the fragment was assigned to it
ValueOf(field, part) ==
    IF field = "US/International" /\ Lower(part) = "international" THEN "International"
    ELSE IF field = "US/International" /\ Lower(part) = "american" THEN "American"
    ELSE part

Holds(result, field, part) ==
    field \in DOMAIN result /\ result[field] = ValueOf(field, part)

\* a page of one five-cell row and one detail row; its fragments
IsDetailPage == Len(doc.rows) = 2 /\ Len(doc.rows[1]) = 5 /\ Len(doc.rows[2]) = 1
DetailFragments == doc.rows[2][1].strings

C15_FirstMatchingFieldOnly ==
    (parsed.called /\ doc.table /\ doc.tbody /\ IsDetailPage) =>
        LET before == parse_main_row(doc.rows[1])
            after == parsed.results[1]
            parts == DetailFragments
            first == [p \in DOMAIN parts |-> FirstMatch(parts[p])]
        IN  \A p \in DOMAIN parts :
                /\ Cardinality({n \in DOMAIN Priority :
                                   Holds(after, Priority[n], parts[p])}) <= 1
                /\ \A n \in DOMAIN Priority :
                      (Holds(after, Priority[n], parts[p])
                       /\ ~Holds(before, Priority[n], parts[p])) => n = first[p]
                /\ Tests(parts[p]) \cap 4..6 # {} => ~Holds(after, "GRE", parts[p])
                \* the last fragment assigned to a field is the one it holds
                /\ (/\ first[p] \in 1..7
                    /\ \A q \in (p + 1)..Len(parts) : first[q] # first[p]) =>
                      Holds(after, Priority[first[p]], parts[p])
                \* the status is set when the row above gave none
                /\ (/\ first[p] = 8
                    /\ before["status"] = ""
                    /\ \A q \in 1..(p - 1) : first[q] # 8) =>
                      Holds(after, "status", parts[p])

\* a fragment that meets the tests of GRE Q, generic GRE and status, after a
\* generic GRE fragment
C15_Witness ==
    /\ parsed.called /\ IsDetailPage
    /\ doc.rows[1] = MainRowB
    /\ DetailFragments = << "GRE 320", "GRE Q 170 accepted" >>
    /\ parsed.results[1]["GRE Q"] = "GRE Q 170 accepted"
    /\ parsed.results[1]["GRE"] = "GRE 320"
    /\ parsed.results[1]["status"] = ""

(***************************************************************************)
(* C16: standardize(text) is total.  As the code has it: for every input,  *)
(* the empty string included, standardize returns without raising a       *)
(* result with exactly the two keys whenever the model is loaded and the   *)
(* inference call returns, whatever the content of the completion; when    *)
(* loading the model or the inference call raises, standardize raises.     *)
(***************************************************************************)
TwoKeys == {"standardized_program", "standardized_university"}
InferenceRaises == llm_out.kind \in {"load_raises", "call_raises"}
FallbackPath == llm_out.kind \in {"invalid", "not_object"}

\* C16 as stated: total also when the inference call raises or is unavailable
C16_Original ==
    std_result.op = "standardize" =>
        ~std_result.raised /\ DOMAIN std_result.result = TwoKeys

C16_TotalWhenInferenceReturns ==
    std_result.op = "standardize" =>
        /\ std_result.raised <=> InferenceRaises
        /\ ~std_result.raised => DOMAIN std_result.result = TwoKeys

\* the empty string, a completion that is JSON but no object
C16_Witness ==
    /\ std_result.op = "standardize" /\ ~std_result.raised
    /\ std_text = "" /\ llm_out.kind = "not_object"
    /\ std_result.result = [standardized_program |-> "",
                            standardized_university |-> "Unknown"]

(***************************************************************************)
(* C17: on the fallback path standardize("MIT") returns university         *)
(* "Massachusetts Institute of Technology".  As the code has it: the       *)
(* fallback takes a string without separator as the program, so            *)
(* standardize("MIT") returns program "Mit" and university "Unknown";      *)
(* standardize("Physics, MIT") on the fallback path and                    *)
(* _post_normalize_university("MIT") return the full name, when the        *)
(* canonical list holds it or holds no name within the cutoff of it.       *)
(***************************************************************************)
MitName == "Massachusetts Institute of Technology"
University == std_result.result["standardized_university"]
\* the generic matching leaves the name alone
KeptByCorpus(name) ==
    InSeq(name, CANON_UNIS) \/ best_match(name, CANON_UNIS, 86) = "None"

\* C17 as stated
C17_Original ==
    (std_result.op = "standardize" /\ FallbackPath /\ std_text = "MIT") =>
        University = MitName

C17_AbbreviationInUniversityPlace ==
    /\ (std_result.op = "standardize" /\ FallbackPath /\ std_text = "MIT") =>
          /\ University # MitName
          /\ KeptByCorpus("Unknown") => University = "Unknown"
    /\ (std_result.op = "standardize" /\ FallbackPath /\ std_text = "Physics, MIT"
        /\ KeptByCorpus(MitName)) =>
          University = MitName
    /\ (std_result.op = "_post_normalize_university" /\ std_text = "MIT"
        /\ KeptByCorpus(MitName)) =>
          std_result.uni = MitName

\* "Physics, MIT" on the fallback path, the list holding the name and one close to it
C17_Witness ==
    /\ std_result.op = "standardize" /\ llm_out.kind = "invalid"
    /\ std_text = "Physics, MIT"
    /\ CANON_UNIS = << "Massachusetts Inst. of Technology", MitName >>
    /\ University = MitName

(***************************************************************************)
(* C18: in _post_normalize_university a cleaned string that matches one of *)
(* the ordered campus patterns gives that campus's canonical name for      *)
(* every canonical list.  As the code has it: this holds of the cleaned    *)
(* strings that contain "california" or start with "uc" (any case), the    *)
(* first matching pattern deciding; every other string, and one that       *)
(* matches no pattern, goes to the exact and fuzzy canonical matching.     *)
(* standardize("Computer Science, UC Berkeley") on the fallback path gives *)
(* "University of California, Berkeley".                                   *)
(***************************************************************************)
\* "if u in CANON_UNIS ... return match or u or 'Unknown'"
GenericMatch(u) ==
    IF InSeq(u, CANON_UNIS) THEN u
    ELSE IF best_match(u, CANON_UNIS, 86) # "None" THEN best_match(u, CANON_UNIS, 86)
    ELSE IF u = "" THEN "Unknown" ELSE u

\* C18 as stated: every cleaned string that matches a campus pattern
C18_Original ==
    std_result.op = "_post_normalize_university" =>
        LET u == CleanedUniversity(std_text)
        IN  FirstCampus(u) # 0 =>
                std_result.uni = UC_CAMPUS_PATTERNS[FirstCampus(u)].canonical

C18_CampusBeforeGeneric ==
    /\ std_result.op = "_post_normalize_university" =>
          LET u == CleanedUniversity(std_text)
              gated == Contains(Lower(u), "california") \/ StartsWith(Lower(u), "uc")
          IN  IF gated /\ FirstCampus(u) # 0
              THEN std_result.uni = UC_CAMPUS_PATTERNS[FirstCampus(u)].canonical
              ELSE std_result.uni = GenericMatch(u)
    /\ (std_result.op = "standardize" /\ FallbackPath
        /\ std_text = "Computer Science, UC Berkeley") =>
          University = "University of California, Berkeley"

\* a campus named without comma, the list holding only the generic name, which
\* is within the cutoff of it
C18_Witness ==
    /\ std_result.op = "_post_normalize_university"
    /\ std_text = "University of California Davis"
    /\ CANON_UNIS = << "University of California" >>
    /\ best_match(std_text, CANON_UNIS, 86) = "University of California"
    /\ std_result.uni = "University of California, Davis"

(***************************************************************************)
(* C19: fix_gre_aw is idempotent: of two runs in succession with no write  *)
(* of another connection since the first began, the second returns 0 and   *)
(* leaves the store as it found it; the value a run returns is the number  *)
(* of rows it nulled (no write falling between its two statements).        *)
(***************************************************************************)
Undisturbed(run) == run.returned /\ run.writes_before = run.writes_after

C19_Idempotent ==
    /\ \A k \in DOMAIN runs :
          Undisturbed(runs[k]) =>
              /\ runs[k].ret = runs[k].nulled
              /\ runs[k].ret = Cardinality({i \in DOMAIN runs[k].before :
                                  /\ runs[k].before[i].gre_aw # Null
                                  /\ runs[k].after[i].gre_aw = Null})
    /\ (/\ Len(runs) = 2 /\ runs[2].returned
        /\ runs[1].writes_before = runs[2].writes_after) =>
          /\ runs[2].ret = 0
          /\ runs[2].after = runs[2].before
          /\ runs[2].before = runs[1].after

\* the first run nulled two rows, the second none
C19_Witness ==
    /\ Len(runs) = 2 /\ runs[2].returned /\ writes = 0
    /\ runs[1].ret = 2 /\ runs[1].before # runs[1].after
    /\ runs[2].ret = 0 /\ store = runs[1].after

(***************************************************************************)
(* C20: after fix_gre_aw returns no stored row has an Analytical-Writing   *)
(* score outside 0 to 6.  As the code has it: no stored score is above 6,  *)
(* every value above 6 has been set to null; a value below 0 is left as it *)
(* is, like every other value not above 6.                                 *)
(***************************************************************************)
JustReturned ==
    /\ runs # <<>> /\ fix_pc = "idle"
    /\ runs[Len(runs)].writes_before = writes

\* C20 as stated: below 0 or above 6
C20_Original ==
    JustReturned =>
        \A i \in DOMAIN store :
            store[i].gre_aw = Null \/ (store[i].gre_aw >= 0 /\ store[i].gre_aw <= 600)

C20_NoneAboveSix ==
    JustReturned =>
        LET before == runs[Len(runs)].before
        IN  /\ DOMAIN store = DOMAIN before
            /\ \A i \in DOMAIN store :
                  /\ store[i].gre_aw = Null \/ store[i].gre_aw <= 600
                  /\ before[i].gre_aw > 600 => store[i].gre_aw = Null
                  /\ before[i].gre_aw <= 600 => store[i] = before[i]

\* a score above 6 nulled, one below 0 kept
C20_Witness ==
    /\ JustReturned /\ Len(runs) = 1
    /\ runs[1].before = << [p_id |-> 1, gre_aw |-> -100], [p_id |-> 2, gre_aw |-> 650] >>
    /\ store = << [p_id |-> 1, gre_aw |-> -100], [p_id |-> 2, gre_aw |-> Null] >>

(***************************************************************************)
(* C21: fix_uc_universities is idempotent: a run that follows another with *)
(* no write of another connection since the first began updates no row and *)
(* returns 0; the value a run returns is the number of rows whose          *)
(* university it changed.                                                  *)
(***************************************************************************)
UniChanged(run) ==
    {i \in DOMAIN run.before : run.after[i].uni # run.before[i].uni}

C21_UcIdempotent ==
    /\ \A k \in DOMAIN uc_runs :
          Undisturbed(uc_runs[k]) => uc_runs[k].ret = Cardinality(UniChanged(uc_runs[k]))
    /\ \A k \in DOMAIN uc_runs :
          (/\ k > 1 /\ uc_runs[k].returned
           /\ uc_runs[k - 1].writes_before = uc_runs[k].writes_after) =>
              /\ uc_runs[k].ret = 0
              /\ uc_runs[k].after = uc_runs[k].before

\* the first run moved two rows to their campus, the second none
C21_Witness ==
    /\ Len(uc_runs) = 2 /\ uc_runs[2].returned /\ writes = 0
    /\ uc_runs[1].ret = 2
    /\ uc_runs[1].before[1].uni = "University of California"
    /\ uc_runs[1].after[1].uni = "University of California, Los Angeles"
    /\ uc_runs[1].before[2].uni = "UC Berkeley"
    /\ uc_runs[1].after[2].uni = "University of California, Berkeley"
    /\ uc_runs[2].ret = 0 /\ store = uc_runs[2].before

(***************************************************************************)
(* C27: a stored row changes only by a cleanup pass, and each pass changes *)
(* only its own target: the update of fix_gre_aw sets gre_aw to null in    *)
(* rows whose gre_aw is above 6 and leaves every other row and field as it *)
(* was; a turn of fix_uc_universities sets the university of the row it    *)
(* looks at to the campus found, which differs from the stored value, and  *)
(* nothing else; insert_row changes no row that is already stored.         *)
(***************************************************************************)
GreUpdateStep == fix_pc = "counted" /\ fix_pc' = "idle"
UcUpdateStep == uc_pc = "loop" /\ uc_rows # <<>> /\ uc_rows' = Tail(uc_rows)
Campuses == {UC_CAMPUS_PATTERNS[n].canonical : n \in DOMAIN UC_CAMPUS_PATTERNS}

GoodDates == {"Added on January 15, 2026", "Added on february 29, 2024"}
\* the score texts of the model with no number after the label
NoNumber == {"", "GRE AW", "GRE AW n/a", "GRE Verbal 160"}
ScoreColumns == [gpa |-> "GPA", gre |-> "GRE", gre_v |-> "GRE V", gre_aw |-> "GRE AW"]

C22_MalformedTextStoredAsNull ==
    /\ parsed.called => ~parsed.raised
    /\ \A k \in DOMAIN calls :
          LET row == calls[k].row
              params == calls[k].params
          IN  /\ row["date_added"] \notin GoodDates => params.date_added = NoDate
              /\ row["date_added"] \in GoodDates => params.date_added # NoDate
              /\ \A column \in DOMAIN ScoreColumns :
                    row[ScoreColumns[column]] \in NoNumber => params[column] = Null
              /\ params.url \notin UrlsOf(calls[k].before) =>
                    /\ calls[k].ret
                    /\ \E i \in DOMAIN ingested : ingested[i] = params

\* a row with an abbreviated month and "GRE AW n/a" was inserted, both null
C22_Witness ==
    /\ Len(calls) = 1 /\ calls[1].ret
    /\ calls[1].row["date_added"] = "Added on Jan 1, 2026"
    /\ calls[1].row["GRE AW"] = "GRE AW n/a"
    /\ ingested[Len(ingested)].date_added = NoDate
    /\ ingested[Len(ingested)].gre_aw = Null
    /\ ingested[Len(ingested)].url = "https://www.thegradcafe.com/result/1"

(***************************************************************************)
(* C23: get_max_pages returns the largest page number found among the      *)
(* pagination links of the page (the hrefs holding "?page=" and a number), *)
(* 1 when the page has no pagination link, and never a value below 1.      *)
(***************************************************************************)
\* the page number each href of Hrefs links to, 0 for one that is no
\* pagination link
LinksTo == [href \in Hrefs |->
    CASE href = "?page=2" -> 2
      [] href = "/survey/?page=3" -> 3
      [] href = "?page=10" -> 10
      [] href = "?page=0" -> 0
      [] href = "?page=007" -> 7
      [] href = "?page=2&x=?page=7" -> 2
      [] href = "?page=x&y=?page=4" -> 4
      [] OTHER -> 0]
IsPagination == [href \in Hrefs |->
    href \notin {"?page=", "/result/1", "?q=a&page=9"}]
PaginationOf(hrefs) == {i \in DOMAIN hrefs : IsPagination[hrefs[i]]}

C23_LargestPageOrOne ==
    max_page.called =>
        LET links == PaginationOf(anchors)
        IN  /\ max_page.value >= 1
            /\ links = {} => max_page.value = 1
            /\ \A i \in links : LinksTo[anchors[i]] >= 1 =>
                   /\ max_page.value >= LinksTo[anchors[i]]
                   /\ \E j \in links : max_page.value = LinksTo[anchors[j]]
            /\ (\A i \in links : LinksTo[anchors[i]] < 1) => max_page.value = 1

\* a page whose links go up to page 10, after one to page 3
C23_Witness ==
    /\ max_page.called
    /\ anchors = << "/survey/?page=3", "?page=10" >>
    /\ max_page.value = 10

(***************************************************************************)
(* C24: In both crawls there is a sleep of the effective delay between any *)
(* two consecutive page fetches of one invocation: every fetch of a page   *)
(* after page 1 comes after the sleep of that page's turn, and fetches are *)
(* one after the other, each ended (parsed or failed) before anything else *)
(* of the invocation happens.                                              *)
(***************************************************************************)
\* the delay the running crawl sleeps for
EffectiveDelay ==
    IF proc = "app" THEN PullDelay
    ELSE IF ~ignore_robots /\ crawl_delay # NoDelay THEN crawl_delay ELSE req_delay

\* the fetch before the one at k, 0 if that is the first
FetchBefore(k) ==
    LET earlier == {f \in 1..(k - 1) : trace[f].ev = "fetch"}
    IN  IF earlier = {} THEN 0 ELSE CHOOSE f \in earlier : \A g \in earlier : g <= f

\* the sleep of the turn of the page fetched at k is after event before
SleepBefore(k, before) ==
    \E s \in (before + 1)..(k - 1) :
        /\ trace[s].ev = "sleep"
        /\ trace[s].page = trace[k].page
        /\ trace[s].n = EffectiveDelay

\* the fetch at k ended before the next event of the invocation
FetchEnded(k) ==
    k < Len(trace) =>
        /\ trace[k + 1].page = trace[k].page
        /\ trace[k + 1].ev \in {"parse"} \cup PageErrors

C24_SleepBetweenFetches ==
    (proc \in {"app", "scrape"} /\ trace # <<>>) =>
        \A k \in DOMAIN trace :
            trace[k].ev = "fetch" =>
                LET before == FetchBefore(k)
                IN  /\ trace[k].page >= 2 => SleepBefore(k, before)
                    /\ before # 0 =>
                           /\ trace[k].page > trace[before].page
                           /\ SleepBefore(k, before)
                    /\ FetchEnded(k)

\* scrape_data fetched page 3 after page 1, page 2 skipped between them
C24_Witness ==
    /\ proc = "scrape"
    /\ FetchedPages = {1, 3}
    /\ Has("skip", 2)
    /\ pc = "done"

(***************************************************************************)
(* C25 (as stated): In parse_detail_row a short fragment with a status     *)
(* keyword sets status only when the record's status is not already set;   *)
(* when it is, status is left unchanged and the fragment is unclassified:  *)
(* it is part of the comment entry appended for that detail row, the       *)
(* unclassified fragments of the row joined with a space.                  *)
(***************************************************************************)
\* the fragments of parts that reach the status test, in order
StatusParts(parts) == {p \in DOMAIN parts : FirstMatch(parts[p]) = 8}

\* fragment p reaches the status test when status is already set
StatusSkipped(before, parts, p) ==
    /\ p \in StatusParts(parts)
    /\ before["status"] # "" \/ \E q \in StatusParts(parts) : q < p

RECURSIVE Pick(_, _, _)
\* the fragments of parts at the positions of keep, from position p on
Pick(parts, keep, p) ==
    IF p > Len(parts) THEN <<>>
    ELSE (IF p \in keep THEN << parts[p] >> ELSE <<>>) \o Pick(parts, keep, p + 1)

\* the fragments no field took
Unclassified(before, parts) ==
    {p \in DOMAIN parts :
        FirstMatch(parts[p]) = 0 \/ StatusSkipped(before, parts, p)}

C25_StatusOnlyWhenUnset ==
    (parsed.called /\ doc.table /\ doc.tbody /\ IsDetailPage) =>
        LET before == parse_main_row(doc.rows[1])
            after == parsed.results[1]
            parts == DetailFragments
            first == StatusParts(parts)
        IN  after["status"] =
                IF before["status"] # "" \/ first = {} THEN before["status"]
                ELSE parts[CHOOSE p \in first : \A q \in first : p <= q]

C25_Original ==
    (parsed.called /\ doc.table /\ doc.tbody /\ IsDetailPage) =>
        LET before == parse_main_row(doc.rows[1])
            after == parsed.results[1]
            parts == DetailFragments
            left == Unclassified(before, parts)
        IN  /\ C25_StatusOnlyWhenUnset
            /\ left # {} =>
                  \E i \in DOMAIN after["comments"] :
                      after["comments"][i] = Join(Pick(parts, left, 1), " ")

(***************************************************************************)
(* C26 (as stated): For a detail row in which no fragment was classified,  *)
(* parse_detail_row appends the row's full original text only if an        *)
(* identical string is not already in the record's comments: a row of one  *)
(* fragment adds exactly one entry per processing (k processings give k    *)
(* entries), and a row of several fragments adds the space-joined entry    *)
(* plus the original text with its separators.                             *)
(***************************************************************************)
\* a page of one five-cell row and the same detail row once or more
IsRepeatPage ==
    /\ Len(doc.rows) >= 2 /\ Len(doc.rows[1]) = 5
    /\ \A i \in 2..Len(doc.rows) : Len(doc.rows[i]) = 1 /\ doc.rows[i] = doc.rows[2]
    /\ DetailFragments # <<>>
Processings == Len(doc.rows) - 1

\* the comments of a record after k processings of a row of unclassified
\* fragments
PureComments(parts, k) ==
    IF Len(parts) = 1 THEN [i \in 1..k |-> parts[1]]
    ELSE << Join(parts, " "), Join(parts, " | ") >>
             \o [i \in 1..(k - 1) |-> Join(parts, " ")]

\* the claim on rows all of whose fragments reach the else branch
C26_PureCommentRows ==
    (parsed.called /\ doc.table /\ doc.tbody /\ IsRepeatPage
       /\ \A p \in DOMAIN DetailFragments : FirstMatch(DetailFragments[p]) = 0) =>
        parsed.results[1]["comments"] = PureComments(DetailFragments, Processings)

C26_Original ==
    (parsed.called /\ doc.table /\ doc.tbody /\ IsRepeatPage
       /\ Unclassified(parse_main_row(doc.rows[1]), DetailFragments)
              = DOMAIN DetailFragments) =>
        parsed.results[1]["comments"] = PureComments(DetailFragments, Processings)

(***************************************************************************)
(* C28 (as stated): Every record parse_survey emits is persisted under its *)
(* own key: two distinct records from distinct main rows never collide on  *)
(* the dedup key, records whose main row had no result link included, so   *)
(* each of them is inserted and none is reported as a duplicate of         *)
(* another.                                                                *)
(***************************************************************************)
\* the two records do not carry one and the same result link
OwnLinks(first, second) ==
    ~("url" \in DOMAIN first /\ "url" \in DOMAIN second /\ first["url"] = second["url"])

C28_Original ==
    \A i, j \in DOMAIN calls :
        (i < j /\ calls[i].row # calls[j].row /\ OwnLinks(calls[i].row, calls[j].row)) =>
            /\ calls[i].params.url # calls[j].params.url
            \* j is refused only for a row stored before this page
            /\ ~calls[j].ret => calls[j].params.url \in UrlsOf(calls[1].before)

\* the claim on records that carry a result link each
C28_LinkedRecords ==
    \A i, j \in DOMAIN calls :
        (i < j /\ "url" \in DOMAIN calls[i].row /\ "url" \in DOMAIN calls[j].row
           /\ calls[i].row["url"] # calls[j].row["url"]) =>
            /\ calls[i].params.url # calls[j].params.url
            /\ ~calls[j].ret => calls[j].params.url \in UrlsOf(calls[1].before)

(***************************************************************************)
(* C29 (as stated): Classification and persistence agree on score labels:  *)
(* for every fragment parse_detail_row accepts into the GPA, GRE, GRE V or *)
(* GRE AW field, labels matched whatever their case, insert_row persists   *)
(* the number that follows the label, not null.                            *)
(***************************************************************************)
\* the score fragments of the model that are a label and a number, with the
\* number in hundredths
NumberAfterLabel ==
    [text \in {"GPA 3.90", "gpa 3.90", "GRE 320", "GRE V 160", "GRE AW 4.5",
               "gre aw 4.5"} |->
        CASE text \in {"GPA 3.90", "gpa 3.90"} -> 390
          [] text = "GRE 320" -> 32000
          [] text = "GRE V 160" -> 16000
          [] text \in {"GRE AW 4.5", "gre aw 4.5"} -> 450]

C29_Original ==
    \A k \in DOMAIN calls :
        \A column \in DOMAIN ScoreColumns :
            LET text == calls[k].row[ScoreColumns[column]]
            IN  text \in DOMAIN NumberAfterLabel =>
                    calls[k].params[column] = NumberAfterLabel[text]

\* the claim on fragments whose label is in upper case
C29_UpperCaseLabels ==
    \A k \in DOMAIN calls :
        \A column \in DOMAIN ScoreColumns :
            LET text == calls[k].row[ScoreColumns[column]]
            IN  (text \in DOMAIN NumberAfterLabel /\ StartsWith(text, "G")) =>
                    calls[k].params[column] = NumberAfterLabel[text]

(***************************************************************************)
(* C30: If two pull_data invocations run at once, each on its own          *)
(* connection and transaction, over overlapping urls, then in every        *)
(* interleaving the table ends with at most one row per url, and no url is *)
(* counted as newly inserted by both invocations when both commit.         *)
(***************************************************************************)
CountedBy(c) == {sessions[c].counted[i] : i \in DOMAIN sessions[c].counted}

C30_OneRowPerUrlOneCounter ==
    proc = "pulls" =>
        /\ \A i, j \in DOMAIN db_rows : db_rows[i].url = db_rows[j].url => i = j
        /\ (\A c \in Conns : sessions[c].state = "committed") =>
              /\ CountedBy(1) \cap CountedBy(2) = {}
              \* what a session counted is its row in the table
              /\ \A c \in Conns : \A url \in CountedBy(c) :
                    \E i \in DOMAIN db_rows : db_rows[i] = StoredRow(url, c)

\* both committed after handing the same url to insert_row; the second waited
\* for the first to commit and counted nothing
C30_Witness ==
    /\ proc = "pulls"
    /\ \A c \in Conns : sessions[c].state = "committed"
    /\ sessions[1].given = << "u2", "" >> /\ sessions[2].given = << "u2" >>
    /\ sessions[2].waited
    /\ CountedBy(1) = {"u2", ""} /\ CountedBy(2) = {}
    /\ Len(db_rows) = 2

====
